---------------------------- MODULE Spec2Model ----------------------------
(***************************************************************************)
(* State-machine model of the emergency-dispatch web client:               *)
(*   - CallerPage (src/src/pages/DriverPage.tsx 1021-1112): the five       *)
(*     question triage chat,                                               *)
(*   - DriverPage (src/src/pages/DriverPage.tsx 110-601): queue, dispatch  *)
(*     preview, two-phase navigation, tracking interval,                   *)
(*   - ParamedicPage (src/frontend/src/pages/paramedicPage.jsx): MCI       *)
(*     camera capture flow,                                                *)
(*   - the shared Firestore collection 'patients',                         *)
(*   - DispatchLogin (src/src/pages/DriverPage.tsx 602-641): the PIN pad,  *)
(*   - closestHospital / haversineKm (src/src/pages/DriverPage.tsx 34-64), *)
(*   - the camera compressor (src/unnamed/part_000).                       *)
(*                                                                         *)
(* React is modelled at the granularity of one event-loop task: a handler  *)
(* (or the continuation of an await) runs to completion, its state updates *)
(* are committed and the effects whose dependencies changed are cleaned up *)
(* and re-run, all in one step.  Every await is a separate in-flight task  *)
(* that resolves (or rejects) in a later step.  SpecPreview alone keeps    *)
(* the render of the ETA effect's own state updates as a step of its own.  *)
(***************************************************************************)
EXTENDS Integers, Sequences, FiniteSets, TLC

NULL == "null"               \* an absent string-valued field / null
NoRec == [null |-> TRUE]     \* an absent object-valued field / null

(***************************************************************************)
(* State                                                                   *)
(***************************************************************************)
\* the shared collection
VARIABLES
    store           \* docId -> record: the documents of collection 'patients'

storeVars == <<store>>

\* CallerPage
VARIABLES
    messages,       \* CallerPage.messages: sequence of [role, text]
    isTyping,       \* CallerPage.isTyping
    currentStep,    \* CallerPage.currentStep
    triageResult,   \* CallerPage.triageResult (NoRec or an end state)
    callerTimer,    \* the pending setTimeout closure: NoRec or [step, text]
    callerAdd       \* the pending addDoc of the caller: NULL or a triage category

callerVars == <<messages, isTyping, currentStep, triageResult, callerTimer, callerAdd>>

\* DriverPage, one value per instance
VARIABLES
    mounted,            \* the DriverPage instance is mounted
    patients,           \* DriverPage.patients: the displayed queue
    snapQ,              \* snapshots sent to the instance's listener, not yet delivered
    selectedPatient,    \* NoRec or the Patient object picked from patients
    isNavigating,
    navigationPhase,    \* 1 | 2
    driverLocation,     \* NoRec or a position
    routeGeoJson,       \* NoRec or [forDoc, phase]: the geometry of that route
    dispatchETA,        \* NoRec or [forDoc]: the estimate of the route to that patient
    isCalculatingETA,
    trackingRef,        \* trackingRef.current: 0 (null) or an interval id
    activeIntervals,    \* the instance's running setInterval timers: [id, doc]
    tasks,              \* geolocation / routing requests in flight
    writeQ,             \* updateDoc calls in flight, in issue order
    toast               \* the last notification shown by the instance

driverUi == <<selectedPatient, isNavigating, navigationPhase, driverLocation,
              routeGeoJson, dispatchETA, isCalculatingETA>>

driverVars == <<mounted, patients, snapQ, driverUi, trackingRef, activeIntervals,
                tasks, writeQ, toast>>


\* ParamedicPage
VARIABLES
    pmMounted,          \* the ParamedicPage instance is mounted
    isMciMode,
    selectedColor,      \* NULL or 'RED' | 'YELLOW' | 'GREEN' | 'BLACK'
    isUploading,
    streamRef,          \* streamRef.current: 0 (null) or a MediaStream
    runningStreams,     \* the MediaStreams whose tracks have not been stopped
    cameraRequests,     \* getUserMedia calls in flight
    captureAdd,         \* the pending addDoc of captureAndSubmit: NULL or its colour
    pmToast             \* the last notification shown by the page

paramedicVars == <<pmMounted, isMciMode, selectedColor, isUploading, streamRef,
                   runningStreams, cameraRequests, captureAdd, pmToast>>

\* ParamedicPage, the standard report form
VARIABLES
    vitals,             \* the form state: [hr, spo2, bp], each a text
    standardAdd,        \* the pending addDoc of submitStandardReport: NoRec or its vitals
    uncaught            \* the last exception that left a handler of the form
                        \* uncaught: NULL or its name

formVars == <<vitals, standardAdd, uncaught>>

\* the camera compressor (src/unnamed/part_000)
VARIABLES
    quality,            \* the closure variable of compressToUnder100KB: NoRec or a double
    encodes,            \* the qualities passed to canvas.toDataURL by the current call
    callbacks,          \* the callback invocations of the current call: [size, quality]
    compressing,        \* a compress() frame of the current call is still to run
    captures,           \* clicks on the capture button so far
    sizeInfo            \* what sizeInfo shows: NoRec or [size] of the last callback

compressVars == <<quality, encodes, callbacks, compressing, captures, sizeInfo>>

\* hospital selection of the DriverPage render
VARIABLES
    patientPos,         \* the pickup point
    nearestHospital     \* NoRec or the element of HOSPITALS returned by closestHospital

hospitalVars == <<patientPos, nearestHospital>>

\* DriverPage at the granularity of single renders
VARIABLES
    etaUpdatesPending   \* per instance: the ETA effect has run and its own
                        \* setDispatchETA(null), setIsCalculatingETA(true) are
                        \* queued for the next render

renderVars == <<etaUpdatesPending>>

\* DispatchLogin
VARIABLES
    pin,                \* the digits entered, a text
    isShaking,
    pathname,           \* the router's location
    loginTimers,        \* pending setTimeout callbacks of the PIN effect
    loginToast          \* the last notification shown by the page

loginVars == <<pin, isShaking, pathname, loginTimers, loginToast>>

\* the components studied on their own
otherVars == <<compressVars, hospitalVars, renderVars, loginVars>>

\* what the handlers of one page leave alone
notCaller == <<driverVars, paramedicVars, formVars, otherVars>>
notDriver == <<callerVars, paramedicVars, formVars, otherVars>>
notParamedic == <<callerVars, driverVars, otherVars>>
notMci == <<callerVars, driverVars, formVars, otherVars>>
notOther == <<callerVars, storeVars, driverVars, paramedicVars, formVars>>

(***************************************************************************)
(* Bounds of the model                                                     *)
(***************************************************************************)
MaxTs == 1          \* server timestamps (seconds) range over 0..MaxTs
MaxStreams == 2     \* camera streams requested or running at a time
MaxSnaps == 2       \* snapshots on their way to one listener
MaxDocs == 2        \* documents created in the queue scenario
MaxCaptures == 2    \* clicks on the capture button
MaxTimers == 2      \* reset timers of the login page pending at a time

Range(f) == {f[x] : x \in DOMAIN f}

(***************************************************************************)
(* Text.  A string is a sequence of one-character strings so that          *)
(* trim / toLowerCase / includes are computed, not assumed.                *)
(***************************************************************************)
Upper == [x \in {"Y", "E", "S", "N", "O"} |->
            CASE x = "Y" -> "y" [] x = "E" -> "e" [] x = "S" -> "s"
              [] x = "N" -> "n" [] x = "O" -> "o"]

\* String.prototype.toLowerCase
toLowerCase(s) == [i \in 1..Len(s) |-> IF s[i] \in DOMAIN Upper THEN Upper[s[i]] ELSE s[i]]

\* String.prototype.includes
includes(s, sub) ==
    \E i \in 1..(Len(s) - Len(sub) + 1) : SubSeq(s, i, i + Len(sub) - 1) = sub

\* String.prototype.trim (only the blank is a white-space character here)
RECURSIVE trimStart(_)
trimStart(s) == IF s # <<>> /\ Head(s) = " " THEN trimStart(Tail(s)) ELSE s

RECURSIVE trimEnd(_)
trimEnd(s) == IF s # <<>> /\ s[Len(s)] = " " THEN trimEnd(SubSeq(s, 1, Len(s) - 1)) ELSE s

trim(s) == trimEnd(trimStart(s))

\* The texts a caller may send (typed or quick reply).
AnswerTexts ==
    { <<"Y", "e", "s">>,
      <<"n", "o">>,
      <<" ", "e", "y", "E", "S", " ">>,
      <<"y", "e", " ", "s">>,
      <<" ">> }

(***************************************************************************)
(* The shared collection 'patients'                                        *)
(***************************************************************************)
\* DEMO_PICKUP / the caller's default pickup, in units of 1e-4 degree
DEMO_PICKUP == [lat |-> 185074, lng |-> 738077]

DocIds == 1..3

\* addDoc: a new document under an auto-generated (arbitrary unused) id
addDoc(st, id, rec) == [d \in DOMAIN st \cup {id} |-> IF d = id THEN rec ELSE st[d]]

\* The fields every record of this model carries.  timestamp is NoRec or
\* [seconds |-> n]; patientPos stands for the pair patientLat/patientLng and
\* driverPos for driverLat/driverLng (NoRec when the fields are absent).
NewRecord(triage, acuity, timestamp, pos) ==
    [triage |-> triage, acuity |-> acuity, timestamp |-> timestamp,
     status |-> "waiting", patientPos |-> pos, driverPos |-> NoRec]

EmptyStore == [d \in {} |-> NoRec]

(***************************************************************************)
(* CallerPage: triage decision engine                                      *)
(***************************************************************************)
\* QUESTIONS, by index 0..4; QUESTIONS[5] is undefined in the source
QUESTIONS == [i \in 0..4 |-> <<"Q", <<"0", "1", "2", "3", "4">>[i + 1]>>]

QuestionAt(i) == IF i \in DOMAIN QUESTIONS THEN QUESTIONS[i] ELSE <<"undefined">>

endStates ==
    [RED    |-> [triage_category |-> "RED",    priority_rank |-> 1],
     YELLOW |-> [triage_category |-> "YELLOW", priority_rank |-> 2],
     GREEN  |-> [triage_category |-> "GREEN",  priority_rank |-> 3]]

\* A plausible slip: the bleeding question read like the first two
evaluateStepBleedingFlipped(step, answer) ==
    LET yes == includes(toLowerCase(answer), <<"y", "e", "s">>) IN
    CASE step = 0 -> IF yes THEN NoRec ELSE endStates.RED
      [] step = 1 -> IF yes THEN NoRec ELSE endStates.RED
      [] step = 2 -> IF yes THEN NoRec ELSE endStates.RED
      [] step = 3 -> IF yes THEN endStates.YELLOW ELSE NoRec
      [] step = 4 -> IF yes THEN endStates.GREEN ELSE endStates.YELLOW
      [] OTHER -> NoRec

evaluateStep(step, answer) ==
    LET yes == includes(toLowerCase(answer), <<"y", "e", "s">>) IN
    CASE step = 0 -> IF yes THEN NoRec ELSE endStates.RED
      [] step = 1 -> IF yes THEN NoRec ELSE endStates.RED
      [] step = 2 -> IF yes THEN endStates.RED ELSE NoRec
      [] step = 3 -> IF yes THEN endStates.YELLOW ELSE NoRec
      [] step = 4 -> IF yes THEN endStates.GREEN ELSE endStates.YELLOW
      [] OTHER -> NoRec

CallerInit ==
    /\ messages = << [role |-> "ai", text |-> QUESTIONS[0]] >>
    /\ isTyping = FALSE
    /\ currentStep = 0
    /\ triageResult = NoRec
    /\ callerTimer = NoRec
    /\ callerAdd = NULL

\* A plausible slip: the guard looks at the text only
handleSendMessageUnguarded(text) ==
    LET trimmed == trim(text) IN
    IF trimmed = <<>>
    THEN UNCHANGED <<callerVars, storeVars, notCaller>>
    ELSE /\ messages' = Append(messages, [role |-> "user", text |-> trimmed])
         /\ isTyping' = TRUE
         /\ callerTimer' = [step |-> currentStep, text |-> trimmed]
         /\ UNCHANGED <<currentStep, triageResult, callerAdd, storeVars, notCaller>>

\* handleSendMessage(text): guard, append the user's message, arm the 1 s timer
handleSendMessage(text) ==
    LET trimmed == trim(text) IN
    IF trimmed = <<>> \/ isTyping \/ triageResult # NoRec
    THEN UNCHANGED <<callerVars, storeVars, notCaller>>
    ELSE /\ messages' = Append(messages, [role |-> "user", text |-> trimmed])
         /\ isTyping' = TRUE
         /\ callerTimer' = [step |-> currentStep, text |-> trimmed]
         /\ UNCHANGED <<currentStep, triageResult, callerAdd, storeVars, notCaller>>

\* the setTimeout callback, up to its await addDoc
CallerTimeout ==
    /\ callerTimer # NoRec
    /\ LET result == evaluateStep(callerTimer.step, callerTimer.text) IN
       IF result # NoRec
       THEN /\ triageResult' = result
            /\ isTyping' = FALSE
            /\ callerAdd' = result.triage_category
            /\ UNCHANGED <<messages, currentStep>>
       ELSE LET nextStep == callerTimer.step + 1 IN
            /\ currentStep' = nextStep
            /\ messages' = Append(messages, [role |-> "ai", text |-> QuestionAt(nextStep)])
            /\ isTyping' = FALSE
            /\ UNCHANGED <<triageResult, callerAdd>>
    /\ callerTimer' = NoRec
    /\ UNCHANGED <<storeVars, notCaller>>

\* await addDoc(...) of the timeout callback resolves: the record is created
CallerAddDocOk ==
    /\ callerAdd # NULL
    /\ \E id \in DocIds \ DOMAIN store, ts \in 0..MaxTs :
         store' = addDoc(store, id,
                         NewRecord(callerAdd, NULL, [seconds |-> ts],
                                   [lat |-> 185074, lng |-> 738077]))
    /\ callerAdd' = NULL
    /\ UNCHANGED <<messages, isTyping, currentStep, triageResult, callerTimer, notCaller>>

\* await addDoc(...) rejects: the catch block only logs
CallerAddDocFail ==
    /\ callerAdd # NULL
    /\ callerAdd' = NULL
    /\ UNCHANGED <<messages, isTyping, currentStep, triageResult, callerTimer, storeVars, notCaller>>

(***************************************************************************)
(* DriverPage: queue ordering                                              *)
(***************************************************************************)
\* A Patient object of a snapshot: the document's data plus docId
Patient(id, rec) ==
    [docId |-> id, triage |-> rec.triage, acuity |-> rec.acuity,
     timestamp |-> rec.timestamp, status |-> rec.status,
     patientPos |-> rec.patientPos]

\* tier of the subscription callback (DriverPage.tsx 136-141)
tier(p) ==
    IF p.triage = "RED" \/ p.acuity = "Critical" THEN 1
    ELSE IF p.triage = "YELLOW" \/ p.acuity = "Urgent" THEN 2
    ELSE IF p.triage = "GREEN" \/ p.acuity = "Routine" THEN 3
    ELSE 5

\* getTier of the earlier DriverPage variant (part_002 41-47)
getTier(p) ==
    IF p.triage = "RED" \/ p.acuity = "Critical" THEN 1
    ELSE IF p.triage = "YELLOW" \/ p.acuity = "Urgent" THEN 2
    ELSE IF p.triage = "GREEN" \/ p.acuity = "Routine" THEN 3
    ELSE IF p.triage = "BLACK" THEN 4
    ELSE 5

\* a.timestamp?.seconds ?? 0
seconds(p) == IF p.timestamp = NoRec THEN 0 ELSE p.timestamp.seconds

\* A plausible slip: the secondary key compared the wrong way round
compareNewestFirst(a, b) ==
    IF tier(a) - tier(b) # 0 THEN tier(a) - tier(b) ELSE seconds(b) - seconds(a)

\* the comparator of data.sort: tier(a) - tier(b) || seconds(a) - seconds(b)
compare(a, b) ==
    IF tier(a) - tier(b) # 0 THEN tier(a) - tier(b) ELSE seconds(a) - seconds(b)

\* Array.prototype.sort is a stable sort: insertion of each element after the
\* last element that does not compare greater
RECURSIVE insertSorted(_, _)
RECURSIVE insertBeforeEquals(_, _)
\* A plausible slip: an unstable sort, which puts an element before its equals
insertBeforeEquals(sorted, x) ==
    IF sorted = <<>> THEN <<x>>
    ELSE IF compare(sorted[Len(sorted)], x) < 0 THEN Append(sorted, x)
    ELSE Append(insertBeforeEquals(SubSeq(sorted, 1, Len(sorted) - 1), x),
                sorted[Len(sorted)])

insertSorted(sorted, x) ==
    IF sorted = <<>> THEN <<x>>
    ELSE IF compare(sorted[Len(sorted)], x) <= 0 THEN Append(sorted, x)
    ELSE Append(insertSorted(SubSeq(sorted, 1, Len(sorted) - 1), x), sorted[Len(sorted)])

RECURSIVE sort(_)
\* A plausible slip: a sort that takes its input from the back, so that equal
\* elements come out in reverse
sortFromBack(data) ==
    IF data = <<>> THEN <<>>
    ELSE insertSorted(sort(Tail(data)), Head(data))

sort(data) ==
    IF data = <<>> THEN <<>>
    ELSE insertSorted(sort(SubSeq(data, 1, Len(data) - 1)), data[Len(data)])

\* the ids of a set of documents in ascending order (the order of snap.docs)
RECURSIVE idsInOrder(_)
idsInOrder(S) ==
    IF S = {} THEN <<>>
    ELSE LET m == CHOOSE x \in S : \A y \in S : x <= y
         IN  <<m>> \o idsInOrder(S \ {m})

\* query(collection 'patients', where status == 'waiting'): snap.docs.map(...)
waitingSnapshot(st) ==
    LET ids == idsInOrder({id \in DOMAIN st : st[id].status = "waiting"})
    IN  [i \in 1..Len(ids) |-> Patient(ids[i], st[ids[i]])]

(***************************************************************************)
(* DriverPage: state of every driver instance                              *)
(*                                                                         *)
(* Every instance is past its PIN screen.  The Firestore client sends the  *)
(* writes of one instance in the order they were issued (writeQ); a write  *)
(* is applied and acknowledged, or rejected, in one step.                  *)
(***************************************************************************)
Drivers == {"d1", "d2"}

MaxWrites == 1      \* writes one instance may have in flight
MaxTasks == 2       \* geolocation / routing requests one instance may have in flight

\* what navigator.geolocation reports
GeoPosition == [lat |-> 185200, lng |-> 738500]

Upd(f, d, v) == [f EXCEPT ![d] = v]

\* A request in flight.  kind: "eta" (calculateETA), "route1" / "route2" (the
\* route effect's async blocks), "tick" (a tracking interval callback);
\* stage: "pos" (awaiting getPosition) or "route" (awaiting fetchOsrmRoute);
\* cancelled: the closure's `cancelled` flag; superseded: history only, set
\* when the UI context of the request changed or a newer request replaced it.
Task(kind, stage, doc) ==
    [kind |-> kind, stage |-> stage, doc |-> doc, cancelled |-> FALSE,
     superseded |-> FALSE]

\* setInterval returns an id that is not in use
freshInterval(d) ==
    CHOOSE n \in 1..(Cardinality(activeIntervals[d]) + 2) :
        /\ n # trackingRef[d]
        /\ \A iv \in activeIntervals[d] : iv.id # n

\* clearInterval(id)
clearInterval(ivs, id) == {iv \in ivs : iv.id # id}

\* cleanup of the ETA effect: cancelled = true
etaCleanup(ts) ==
    {IF t.kind = "eta" THEN [t EXCEPT !.cancelled = TRUE] ELSE t : t \in ts}

\* cleanup of the route effect, the flag: cancelled = true
routeCleanup(ts) ==
    {IF t.kind \in {"route1", "route2"} THEN [t EXCEPT !.cancelled = TRUE] ELSE t : t \in ts}

\* A plausible slip: the cleanup of the route effect leaves the interval running
routeCleanupIntervalsKept(d, ivs) == ivs

\* cleanup of the route effect, the interval: if (trackingRef.current) clearInterval
routeCleanupIntervals(d, ivs) ==
    IF trackingRef[d] # 0 THEN clearInterval(ivs, trackingRef[d]) ELSE ivs

\* history: requests whose context changed, or that a newer request replaces
markSuperseded(ts, ctxChanged, newEta, newRoute) ==
    {IF \/ (ctxChanged /\ t.kind \in {"eta", "route1", "route2"})
        \/ (newEta /\ t.kind = "eta")
        \/ (newRoute /\ t.kind \in {"route1", "route2"})
     THEN [t EXCEPT !.superseded = TRUE] ELSE t : t \in ts}

(***************************************************************************)
(* Commit(d, ...): React commits the state a handler of instance d has set *)
(* (sel .. calc; locSet: setDriverLocation was called with a new object;   *)
(* ts: the requests in flight after the handler) and runs the effects      *)
(* whose dependencies changed: first their cleanups, then their bodies     *)
(*   - ETA effect   (157-191), deps [selectedPatient, isNavigating,        *)
(*                                   driverLocation]                       *)
(*   - route effect (194-247), deps [isNavigating, navigationPhase,        *)
(*                                   selectedPatient].                     *)
(* State updates of an unmounted instance are dropped.                     *)
(*                                                                         *)
(* The ETA effect starts with setDispatchETA(null) and                     *)
(* setIsCalculatingETA(true).  React renders state updates made by an      *)
(* effect in a render of its own, after the one that ran the effect.       *)
(* defer = FALSE folds that second render into the step; defer = TRUE      *)
(* stops after the first render, with the two updates still queued.        *)
(***************************************************************************)
CommitDeferring(d, sel, nav, ph, loc, locSet, route, eta, calc, ts, defer) ==
    IF ~mounted[d]
    THEN /\ Cardinality(ts) <= MaxTasks
         /\ tasks' = Upd(tasks, d, ts)
         /\ UNCHANGED <<driverUi, trackingRef, activeIntervals>>
    ELSE
    LET etaDeps   == \/ sel # selectedPatient[d] \/ nav # isNavigating[d]
                     \/ locSet \/ loc # driverLocation[d]
        routeDeps == \/ nav # isNavigating[d] \/ ph # navigationPhase[d]
                     \/ sel # selectedPatient[d]
        ctxChanged == \/ sel # selectedPatient[d] \/ nav # isNavigating[d]
                      \/ ph # navigationPhase[d]
        runEta    == etaDeps /\ ~(sel = NoRec \/ nav)
        runRoute  == routeDeps /\ ~(~nav \/ sel = NoRec)
        ts1 == IF etaDeps THEN etaCleanup(ts) ELSE ts
        ts2 == IF routeDeps THEN routeCleanup(ts1) ELSE ts1
        ts3 == markSuperseded(ts2, ctxChanged, runEta, runRoute)
        ivs1 == IF routeDeps THEN routeCleanupIntervals(d, activeIntervals[d])
                ELSE activeIntervals[d]
        ref1 == IF routeDeps THEN 0 ELSE trackingRef[d]
        newId == freshInterval(d)
        etaTask == Task("eta", IF loc # NoRec THEN "route" ELSE "pos", sel.docId)
        routeTask == IF ph = 1 THEN Task("route1", "pos", sel.docId)
                     ELSE Task("route2", "route", sel.docId)
        ts4 == ts3 \cup (IF runEta THEN {etaTask} ELSE {})
                   \cup (IF runRoute THEN {routeTask} ELSE {})
    IN  /\ Cardinality(ts4) <= MaxTasks
        /\ selectedPatient' = Upd(selectedPatient, d, sel)
        /\ isNavigating' = Upd(isNavigating, d, nav)
        /\ navigationPhase' = Upd(navigationPhase, d, ph)
        /\ driverLocation' = Upd(driverLocation, d, loc)
        /\ dispatchETA' = Upd(dispatchETA, d, IF runEta /\ ~defer THEN NoRec ELSE eta)
        /\ isCalculatingETA' = Upd(isCalculatingETA, d,
                                   IF runEta /\ ~defer THEN TRUE ELSE calc)
        /\ routeGeoJson' = Upd(routeGeoJson, d, IF runRoute THEN NoRec ELSE route)
        /\ tasks' = Upd(tasks, d, ts4)
        /\ activeIntervals' = Upd(activeIntervals, d,
              IF runRoute /\ ph = 1
              THEN ivs1 \cup {[id |-> newId, doc |-> sel.docId]} ELSE ivs1)
        /\ trackingRef' = Upd(trackingRef, d, IF runRoute /\ ph = 1 THEN newId ELSE ref1)

Commit(d, sel, nav, ph, loc, locSet, route, eta, calc, ts) ==
    CommitDeferring(d, sel, nav, ph, loc, locSet, route, eta, calc, ts, FALSE)

\* a handler that changes only the listed UI fields of instance d
CommitSame(d, ts) ==
    Commit(d, selectedPatient[d], isNavigating[d], navigationPhase[d],
           driverLocation[d], FALSE, routeGeoJson[d], dispatchETA[d],
           isCalculatingETA[d], ts)

(***************************************************************************)
(* DriverPage: the subscription                                            *)
(***************************************************************************)
\* Firestore sends every mounted listener a snapshot when the result of its
\* query changed
notifyListeners(st2) ==
    snapQ' = [d \in Drivers |->
                IF mounted[d] /\ waitingSnapshot(st2) # waitingSnapshot(store)
                THEN Append(snapQ[d], waitingSnapshot(st2)) ELSE snapQ[d]]

\* the onSnapshot callback: map, sort, setPatients
onSnapshot(d) ==
    /\ mounted[d]
    /\ snapQ[d] # <<>>
    /\ patients' = Upd(patients, d, sort(Head(snapQ[d])))
    /\ snapQ' = Upd(snapQ, d, Tail(snapQ[d]))
    /\ UNCHANGED <<mounted, driverUi, trackingRef, activeIntervals, tasks, writeQ,
                   toast, store, notDriver>>

(***************************************************************************)
(* DriverPage: user actions                                                *)
(***************************************************************************)
\* a queue card's onClick: setSelectedPatient(p).  The cards are reachable
\* only in the queue view with no preview modal over them.
selectPatient(d, i) ==
    /\ mounted[d] /\ ~isNavigating[d] /\ selectedPatient[d] = NoRec
    /\ i \in 1..Len(patients[d])
    /\ Commit(d, patients[d][i], isNavigating[d], navigationPhase[d],
              driverLocation[d], FALSE, routeGeoJson[d], dispatchETA[d],
              isCalculatingETA[d], tasks[d])
    /\ UNCHANGED <<mounted, patients, snapQ, writeQ, toast, store, notDriver>>

\* the preview's close button and its Decline button: setSelectedPatient(null)
declinePreview(d) ==
    /\ mounted[d] /\ ~isNavigating[d] /\ selectedPatient[d] # NoRec
    /\ Commit(d, NoRec, isNavigating[d], navigationPhase[d],
              driverLocation[d], FALSE, routeGeoJson[d], dispatchETA[d],
              isCalculatingETA[d], tasks[d])
    /\ UNCHANGED <<mounted, patients, snapQ, writeQ, toast, store, notDriver>>

\* the click on a card, up to the render that shows the preview: the ETA
\* effect has run, the state updates it made are not rendered yet
selectPatientRendered(d, i) ==
    /\ mounted[d] /\ ~isNavigating[d] /\ selectedPatient[d] = NoRec
    /\ ~etaUpdatesPending[d]
    /\ i \in 1..Len(patients[d])
    /\ CommitDeferring(d, patients[d][i], isNavigating[d], navigationPhase[d],
                       driverLocation[d], FALSE, routeGeoJson[d], dispatchETA[d],
                       isCalculatingETA[d], tasks[d], TRUE)
    /\ etaUpdatesPending' = Upd(etaUpdatesPending, d, TRUE)
    /\ UNCHANGED <<mounted, patients, snapQ, writeQ, toast, store, callerVars,
                   paramedicVars, formVars, compressVars, hospitalVars, loginVars>>

\* the render of the updates the ETA effect made
etaUpdatesRendered(d) ==
    /\ etaUpdatesPending[d]
    /\ etaUpdatesPending' = Upd(etaUpdatesPending, d, FALSE)
    /\ Commit(d, selectedPatient[d], isNavigating[d], navigationPhase[d],
              driverLocation[d], FALSE, routeGeoJson[d], NoRec, TRUE, tasks[d])
    /\ UNCHANGED <<mounted, patients, snapQ, writeQ, toast, store, callerVars,
                   paramedicVars, formVars, compressVars, hospitalVars, loginVars>>

\* the Accept Dispatch button is rendered in the preview and is
\* disabled={isCalculatingETA || !dispatchETA}
acceptEnabled(d) ==
    /\ selectedPatient[d] # NoRec /\ ~isNavigating[d]
    /\ ~(isCalculatingETA[d] \/ dispatchETA[d] = NoRec)

\* the first half of a status handler: toast.loading, then await updateDoc
issueStatusWrite(d, kind, msg) ==
    /\ writeQ' = Upd(writeQ, d, Append(writeQ[d], [kind |-> kind, doc |-> selectedPatient[d].docId]))
    /\ toast' = Upd(toast, d, msg)
    /\ CommitSame(d, tasks[d])

\* handleAcceptDispatch up to its await
handleAcceptDispatch(d) ==
    /\ mounted[d] /\ acceptEnabled(d)
    /\ Len(writeQ[d]) < MaxWrites
    /\ issueStatusWrite(d, "accept", "Accepting dispatch...")
    /\ UNCHANGED <<mounted, patients, snapQ, store, notDriver>>

\* handlePatientLoaded up to its await; the button is shown in phase 1 of the
\* map view.  Without a selected patient the handler returns at once.
handlePatientLoaded(d) ==
    /\ mounted[d] /\ isNavigating[d] /\ navigationPhase[d] = 1
    /\ Len(writeQ[d]) < MaxWrites
    /\ IF selectedPatient[d] = NoRec
       THEN UNCHANGED <<writeQ, toast, driverUi, trackingRef, activeIntervals, tasks>>
       ELSE issueStatusWrite(d, "loaded", "Updating status...")
    /\ UNCHANGED <<mounted, patients, snapQ, store, notDriver>>

\* handlePatientDelivered up to its await; the button is shown in phase 2
handlePatientDelivered(d) ==
    /\ mounted[d] /\ isNavigating[d] /\ navigationPhase[d] = 2
    /\ Len(writeQ[d]) < MaxWrites
    /\ IF selectedPatient[d] = NoRec
       THEN UNCHANGED <<writeQ, toast, driverUi, trackingRef, activeIntervals, tasks>>
       ELSE issueStatusWrite(d, "delivered", "Finalising...")
    /\ UNCHANGED <<mounted, patients, snapQ, store, notDriver>>

\* the page is left: every effect's cleanup runs (unsub; clearInterval of
\* line 154; cancelled = true twice; the route effect's clearInterval)
unmount(d) ==
    /\ mounted[d]
    /\ mounted' = Upd(mounted, d, FALSE)
    /\ snapQ' = Upd(snapQ, d, <<>>)
    /\ tasks' = Upd(tasks, d, markSuperseded(routeCleanup(etaCleanup(tasks[d])), TRUE, FALSE, FALSE))
    /\ activeIntervals' = Upd(activeIntervals, d,
          routeCleanupIntervals(d,
              IF trackingRef[d] # 0 THEN clearInterval(activeIntervals[d], trackingRef[d])
              ELSE activeIntervals[d]))
    /\ trackingRef' = Upd(trackingRef, d, 0)
    /\ UNCHANGED <<patients, driverUi, writeQ, toast, store, notDriver>>

(***************************************************************************)
(* DriverPage: completions of updateDoc                                    *)
(***************************************************************************)
statusOf(kind) ==
    CASE kind = "accept" -> "driver_en_route"
      [] kind = "loaded" -> "en_route_to_hospital"
      [] kind = "delivered" -> "delivered"

\* A plausible slip: a write that replaces the document (setDoc without
\* merge), so the fields it does not name are lost
updateDocReplacing(st, w) ==
    IF w.kind = "track"
    THEN [st EXCEPT ![w.doc] = [@ EXCEPT !.driverPos = GeoPosition,
                                         !.triage = NULL, !.acuity = NULL]]
    ELSE [st EXCEPT ![w.doc] = [@ EXCEPT !.status = statusOf(w.kind),
                                         !.triage = NULL, !.acuity = NULL]]

\* updateDoc(doc, {status}) / updateDoc(doc, {driverLat, driverLng})
updateDoc(st, w) ==
    IF w.kind = "track" THEN [st EXCEPT ![w.doc].driverPos = GeoPosition]
    ELSE [st EXCEPT ![w.doc].status = statusOf(w.kind)]

\* the oldest write of instance d is w and is applied and acknowledged
writeOk(d, kind) ==
    /\ writeQ[d] # <<>> /\ Head(writeQ[d]).kind = kind
    /\ writeQ' = Upd(writeQ, d, Tail(writeQ[d]))
    /\ store' = updateDoc(store, Head(writeQ[d]))
    /\ notifyListeners(updateDoc(store, Head(writeQ[d])))
    /\ UNCHANGED <<mounted, patients, notDriver>>

\* the oldest write of instance d is rejected
writeFail(d, kind) ==
    /\ writeQ[d] # <<>> /\ Head(writeQ[d]).kind = kind
    /\ writeQ' = Upd(writeQ, d, Tail(writeQ[d]))
    /\ UNCHANGED <<mounted, patients, snapQ, store, notDriver>>

\* A plausible slip: an arbitrated accept, which is rejected when its record
\* is no longer waiting
handleAcceptDispatchOkIfWaiting(d) ==
    IF writeQ[d] # <<>> /\ store[Head(writeQ[d]).doc].status # "waiting"
    THEN /\ writeFail(d, "accept")
         /\ toast' = Upd(toast, d, "Failed to accept dispatch")
         /\ CommitSame(d, tasks[d])
    ELSE /\ writeOk(d, "accept")
         /\ toast' = Upd(toast, d, "En route to patient!")
         /\ Commit(d, selectedPatient[d], TRUE, 1, driverLocation[d], FALSE,
                   routeGeoJson[d], dispatchETA[d], isCalculatingETA[d], tasks[d])

\* handleAcceptDispatch after its await
handleAcceptDispatchOk(d) ==
    /\ writeOk(d, "accept")
    /\ toast' = Upd(toast, d, "En route to patient!")
    /\ Commit(d, selectedPatient[d], TRUE, 1, driverLocation[d], FALSE,
              routeGeoJson[d], dispatchETA[d], isCalculatingETA[d], tasks[d])

\* A plausible slip: the transition placed after the try block
handleFailStillAdvances(d) ==
    /\ writeFail(d, "loaded")
    /\ toast' = Upd(toast, d, "Failed to update status")
    /\ Commit(d, selectedPatient[d], isNavigating[d], 2, driverLocation[d], FALSE,
              routeGeoJson[d], dispatchETA[d], isCalculatingETA[d], tasks[d])

handleAcceptDispatchFail(d) ==
    /\ writeFail(d, "accept")
    /\ toast' = Upd(toast, d, "Failed to accept dispatch")
    /\ CommitSame(d, tasks[d])

\* handlePatientLoaded after its await
handlePatientLoadedOk(d) ==
    /\ writeOk(d, "loaded")
    /\ toast' = Upd(toast, d, "Patient loaded. Rerouting to hospital...")
    /\ Commit(d, selectedPatient[d], isNavigating[d], 2, driverLocation[d], FALSE,
              routeGeoJson[d], dispatchETA[d], isCalculatingETA[d], tasks[d])

handlePatientLoadedFail(d) ==
    /\ writeFail(d, "loaded")
    /\ toast' = Upd(toast, d, "Failed to update status")
    /\ CommitSame(d, tasks[d])

\* A plausible slip: the delivery forgets setNavigationPhase(1)
handlePatientDeliveredOkPhaseKept(d) ==
    /\ writeOk(d, "delivered")
    /\ toast' = Upd(toast, d, "Transport Complete. Ready for next dispatch.")
    /\ Commit(d, NoRec, FALSE, navigationPhase[d], NoRec, FALSE, NoRec, NoRec,
              isCalculatingETA[d], tasks[d])

\* handlePatientDelivered after its await
handlePatientDeliveredOk(d) ==
    /\ writeOk(d, "delivered")
    /\ toast' = Upd(toast, d, "Transport Complete. Ready for next dispatch.")
    /\ Commit(d, NoRec, FALSE, 1, NoRec, FALSE, NoRec, NoRec,
              isCalculatingETA[d], tasks[d])

handlePatientDeliveredFail(d) ==
    /\ writeFail(d, "delivered")
    /\ toast' = Upd(toast, d, "Failed to finalise")
    /\ CommitSame(d, tasks[d])

\* the tracking callback after await updateDoc: nothing follows; a rejection
\* is logged by its catch
trackingWriteOk(d) ==
    /\ writeOk(d, "track")
    /\ UNCHANGED <<toast, driverUi, trackingRef, activeIntervals, tasks>>

trackingWriteFail(d) ==
    /\ writeFail(d, "track")
    /\ UNCHANGED <<toast, driverUi, trackingRef, activeIntervals, tasks>>

(***************************************************************************)
(* DriverPage: the tracking interval and the completions of getPosition    *)
(* and fetchOsrmRoute                                                      *)
(***************************************************************************)
\* the 5 s interval fires: the callback starts with await getPosition()
trackingTick(d) ==
    /\ \E iv \in activeIntervals[d] :
         CommitSame(d, tasks[d] \cup {Task("tick", "pos", iv.doc)})
    /\ UNCHANGED <<mounted, patients, snapQ, writeQ, toast, store, notDriver>>

\* the tracking callback after await getPosition(): setDriverLocation, then
\* await updateDoc({driverLat, driverLng})
trackingPositionOk(d) ==
    /\ Len(writeQ[d]) < MaxWrites
    /\ \E t \in tasks[d] :
         /\ t.kind = "tick"
         /\ writeQ' = Upd(writeQ, d, Append(writeQ[d], [kind |-> "track", doc |-> t.doc]))
         /\ Commit(d, selectedPatient[d], isNavigating[d], navigationPhase[d],
                   GeoPosition, TRUE, routeGeoJson[d], dispatchETA[d],
                   isCalculatingETA[d], tasks[d] \ {t})
    /\ UNCHANGED <<mounted, patients, snapQ, toast, store, notDriver>>

\* getPosition() of the tracking callback rejects: the catch logs
trackingPositionFail(d) ==
    /\ \E t \in tasks[d] :
         /\ t.kind = "tick"
         /\ CommitSame(d, tasks[d] \ {t})
    /\ UNCHANGED <<mounted, patients, snapQ, writeQ, toast, store, notDriver>>

\* calculateETA after await getPosition():
\*   if (!driverLocation && !cancelled) setDriverLocation(pos); then the fetch
calculateETAPositionOk(d) ==
    /\ \E t \in tasks[d] :
         /\ t.kind = "eta" /\ t.stage = "pos"
         /\ LET ts == (tasks[d] \ {t}) \cup {[t EXCEPT !.stage = "route"]} IN
            IF ~t.cancelled
            THEN Commit(d, selectedPatient[d], isNavigating[d], navigationPhase[d],
                        GeoPosition, TRUE, routeGeoJson[d], dispatchETA[d],
                        isCalculatingETA[d], ts)
            ELSE CommitSame(d, ts)
    /\ UNCHANGED <<mounted, patients, snapQ, writeQ, toast, store, notDriver>>

\* getPosition() of calculateETA rejects: catch, then
\*   finally { if (!cancelled) setIsCalculatingETA(false) }
calculateETAPositionFail(d) ==
    /\ \E t \in tasks[d] :
         /\ t.kind = "eta" /\ t.stage = "pos"
         /\ Commit(d, selectedPatient[d], isNavigating[d], navigationPhase[d],
                   driverLocation[d], FALSE, routeGeoJson[d], dispatchETA[d],
                   IF ~t.cancelled THEN FALSE ELSE isCalculatingETA[d],
                   tasks[d] \ {t})
    /\ UNCHANGED <<mounted, patients, snapQ, writeQ, toast, store, notDriver>>

\* A plausible slip: the result of the fetch is used without the stale-result
\* guard
etaAfterFetchUnguarded(d, t, found) ==
    Commit(d, selectedPatient[d], isNavigating[d], navigationPhase[d],
           driverLocation[d], FALSE, routeGeoJson[d],
           IF found THEN [forDoc |-> t.doc] ELSE dispatchETA[d],
           FALSE,
           tasks[d] \ {t})

\* A plausible slip: the reset of isCalculatingETA sits next to setDispatchETA
\* instead of in a finally block
etaAfterFetchResetOnlyWithRoute(d, t, found) ==
    Commit(d, selectedPatient[d], isNavigating[d], navigationPhase[d],
           driverLocation[d], FALSE, routeGeoJson[d],
           IF ~t.cancelled /\ found THEN [forDoc |-> t.doc] ELSE dispatchETA[d],
           IF ~t.cancelled /\ found THEN FALSE ELSE isCalculatingETA[d],
           tasks[d] \ {t})

\* calculateETA after await fetchOsrmRoute (found: a route came back):
\*   if (!cancelled && routeData) setDispatchETA(...);
\*   finally { if (!cancelled) setIsCalculatingETA(false) }
etaAfterFetch(d, t, found) ==
    Commit(d, selectedPatient[d], isNavigating[d], navigationPhase[d],
           driverLocation[d], FALSE, routeGeoJson[d],
           IF ~t.cancelled /\ found THEN [forDoc |-> t.doc] ELSE dispatchETA[d],
           IF ~t.cancelled THEN FALSE ELSE isCalculatingETA[d],
           tasks[d] \ {t})

calculateETARouteDone(d) ==
    /\ \E t \in tasks[d], found \in BOOLEAN :
         /\ t.kind = "eta" /\ t.stage = "route"
         /\ etaAfterFetch(d, t, found)
    /\ UNCHANGED <<mounted, patients, snapQ, writeQ, toast, store, notDriver>>

\* the phase 1 block of the route effect after await getPosition():
\*   if (cancelled) return; setDriverLocation(driver); then the fetch
routePositionOk(d) ==
    /\ \E t \in tasks[d] :
         /\ t.kind = "route1" /\ t.stage = "pos"
         /\ IF t.cancelled
            THEN CommitSame(d, tasks[d] \ {t})
            ELSE Commit(d, selectedPatient[d], isNavigating[d], navigationPhase[d],
                        GeoPosition, TRUE, routeGeoJson[d], dispatchETA[d],
                        isCalculatingETA[d],
                        (tasks[d] \ {t}) \cup {[t EXCEPT !.stage = "route"]})
    /\ UNCHANGED <<mounted, patients, snapQ, writeQ, toast, store, notDriver>>

\* getPosition() of the phase 1 block rejects:
\*   catch { if (!cancelled) toast.error('Could not get your location.') }
routePositionFail(d) ==
    /\ \E t \in tasks[d] :
         /\ t.kind = "route1" /\ t.stage = "pos"
         /\ toast' = Upd(toast, d, IF ~t.cancelled THEN "Could not get your location."
                                   ELSE toast[d])
         /\ CommitSame(d, tasks[d] \ {t})
    /\ UNCHANGED <<mounted, patients, snapQ, writeQ, store, notDriver>>

\* either block of the route effect after await fetchOsrmRoute:
\*   if (!cancelled && routeData?.geometry) setRouteGeoJson(routeData.geometry)
routeAfterFetch(d, t, found) ==
    Commit(d, selectedPatient[d], isNavigating[d], navigationPhase[d],
           driverLocation[d], FALSE,
           IF ~t.cancelled /\ found
           THEN [forDoc |-> t.doc, phase |-> IF t.kind = "route1" THEN 1 ELSE 2]
           ELSE routeGeoJson[d],
           dispatchETA[d], isCalculatingETA[d], tasks[d] \ {t})

routeFetchDone(d) ==
    /\ \E t \in tasks[d], found \in BOOLEAN :
         /\ t.kind \in {"route1", "route2"} /\ t.stage = "route"
         /\ routeAfterFetch(d, t, found)
    /\ UNCHANGED <<mounted, patients, snapQ, writeQ, toast, store, notDriver>>

(***************************************************************************)
(* The waiting queue under a changing collection                           *)
(***************************************************************************)
\* the labels a record of the collection may carry (interface Patient:
\* triage?: 'RED' | 'YELLOW' | 'GREEN', acuity?: 'Critical' | 'Urgent' |
\* 'Routine'), and the BLACK the paramedic's MCI intake writes as triage
QueueLabels ==
    {<<"RED", NULL>>, <<NULL, "Critical">>, <<"YELLOW", NULL>>, <<NULL, "Urgent">>,
     <<"GREEN", NULL>>, <<NULL, "Routine">>, <<"BLACK", NULL>>, <<NULL, NULL>>}

\* timestamp?: any  --  absent, or a server timestamp
QueueTimestamps == {NoRec} \cup {[seconds |-> n] : n \in 0..MaxTs}

\* some client's addDoc lands on the server: a new waiting record
recordCreated(id, labels, ts) ==
    /\ id \notin DOMAIN store
    /\ Cardinality(DOMAIN store) < MaxDocs
    /\ \A d \in Drivers : Len(snapQ[d]) < MaxSnaps
    /\ store' = addDoc(store, id, NewRecord(labels[1], labels[2], ts, NoRec))
    /\ notifyListeners(store')
    /\ UNCHANGED <<mounted, patients, driverUi, trackingRef, activeIntervals, tasks,
                   writeQ, toast, notDriver>>

\* some other driver's updateDoc(status: 'driver_en_route') lands on the server
recordAccepted(id) ==
    /\ id \in DOMAIN store
    /\ store[id].status = "waiting"
    /\ \A d \in Drivers : Len(snapQ[d]) < MaxSnaps
    /\ store' = updateDoc(store, [kind |-> "accept", doc |-> id])
    /\ notifyListeners(store')
    /\ UNCHANGED <<mounted, patients, driverUi, trackingRef, activeIntervals, tasks,
                   writeQ, toast, notDriver>>

(***************************************************************************)
(* ParamedicPage: MCI camera capture                                       *)
(***************************************************************************)
MciColors == {"RED", "YELLOW", "GREEN", "BLACK"}

\* streamRef.current.getTracks().forEach(track => track.stop())
stopTracks(running, ref) == running \ {ref}

\* getUserMedia resolves with a new MediaStream
freshStream == CHOOSE n \in 1..(Cardinality(runningStreams) + 2) :
                   n # streamRef /\ n \notin runningStreams

\* the resource part of stopCamera(): stop the tracks of streamRef.current
stopCameraTracks(running, ref) == IF ref # 0 THEN stopTracks(running, ref) ELSE running

(***************************************************************************)
(* PmCommit(color, mci, ref, running): React commits selectedColor and     *)
(* isMciMode as set by a handler that left streamRef.current = ref and the *)
(* streams `running`, and re-runs the camera effect (28-59, deps           *)
(* [isMciMode, selectedColor]) when they changed: its cleanup stops the    *)
(* stream streamRef holds, its body calls startCamera() when a colour is   *)
(* selected in MCI mode.  State updates of an unmounted page are dropped.  *)
(***************************************************************************)
PmCommit(color, mci, ref, running) ==
    IF ~pmMounted
    THEN /\ streamRef' = ref
         /\ runningStreams' = running
         /\ UNCHANGED <<selectedColor, isMciMode, cameraRequests>>
    ELSE
    LET deps == color # selectedColor \/ mci # isMciMode
        start == deps /\ mci /\ color # NULL
    IN  /\ selectedColor' = color
        /\ isMciMode' = mci
        /\ streamRef' = IF deps THEN 0 ELSE ref
        /\ runningStreams' = IF deps /\ ref # 0 THEN stopTracks(running, ref) ELSE running
        /\ cameraRequests' = IF start THEN cameraRequests + 1 ELSE cameraRequests

\* handleMciClick(color): one of the four buttons of the selection state
handleMciClick(color) ==
    /\ pmMounted /\ isMciMode /\ selectedColor = NULL
    /\ cameraRequests + Cardinality(runningStreams) < MaxStreams
    /\ PmCommit(color, isMciMode, streamRef, runningStreams)
    /\ UNCHANGED <<pmMounted, isUploading, captureAdd, pmToast, store, notMci>>

\* startCamera after await getUserMedia: streamRef.current = stream
startCameraOk ==
    /\ cameraRequests > 0
    /\ cameraRequests' = cameraRequests - 1
    /\ streamRef' = freshStream
    /\ runningStreams' = runningStreams \cup {freshStream}
    /\ UNCHANGED <<pmMounted, isMciMode, selectedColor, isUploading, captureAdd,
                   pmToast, store, notMci>>

\* A plausible slip: the catch block reports the failure and leaves the
\* colour selected
startCameraFailColourKept ==
    /\ cameraRequests > 0
    /\ pmToast' = "Failed to access camera"
    /\ cameraRequests' = cameraRequests - 1
    /\ UNCHANGED <<selectedColor, isMciMode, streamRef, runningStreams>>
    /\ UNCHANGED <<pmMounted, isUploading, captureAdd, store, notMci>>

\* getUserMedia rejects: toast.error, setSelectedColor(null)
startCameraFail ==
    /\ cameraRequests > 0
    /\ pmToast' = "Failed to access camera"
    /\ \E left \in {cameraRequests - 1} :
         IF ~pmMounted
         THEN /\ cameraRequests' = left
              /\ UNCHANGED <<selectedColor, isMciMode, streamRef, runningStreams>>
         ELSE /\ selectedColor' = NULL
              /\ isMciMode' = isMciMode
              /\ streamRef' = IF selectedColor # NULL THEN 0 ELSE streamRef
              /\ runningStreams' =
                    IF selectedColor # NULL /\ streamRef # 0
                    THEN stopTracks(runningStreams, streamRef) ELSE runningStreams
              /\ cameraRequests' = left
    /\ UNCHANGED <<pmMounted, isUploading, captureAdd, store, notMci>>

\* the cancel button of the camera state (disabled while uploading): stopCamera()
stopCamera ==
    /\ pmMounted /\ isMciMode /\ selectedColor # NULL /\ ~isUploading
    /\ PmCommit(NULL, isMciMode, 0, stopCameraTracks(runningStreams, streamRef))
    /\ UNCHANGED <<pmMounted, isUploading, captureAdd, pmToast, store, notMci>>

\* the mode switch: if (isMciMode) stopCamera(); setIsMciMode(!isMciMode)
toggleMode ==
    /\ pmMounted
    /\ IF isMciMode
       THEN PmCommit(NULL, FALSE, 0, stopCameraTracks(runningStreams, streamRef))
       ELSE PmCommit(selectedColor, TRUE, streamRef, runningStreams)
    /\ UNCHANGED <<pmMounted, isUploading, captureAdd, pmToast, store, notMci>>

\* captureAndSubmit up to its await addDoc (ctx: canvas.getContext('2d') gave
\* a context); the button is disabled while uploading
captureAndSubmit ==
    /\ pmMounted /\ isMciMode /\ selectedColor # NULL /\ ~isUploading
    /\ captureAdd = NULL
    /\ Cardinality(DOMAIN store) < MaxDocs
    /\ \E ctx \in BOOLEAN :
         IF ctx
         THEN /\ isUploading' = TRUE
              /\ pmToast' = "Processing triage..."
              /\ captureAdd' = selectedColor
         ELSE /\ isUploading' = FALSE
              /\ pmToast' = "Failed to log patient"
              /\ captureAdd' = NULL
    /\ PmCommit(NULL, isMciMode, 0, stopCameraTracks(runningStreams, streamRef))
    /\ UNCHANGED <<pmMounted, store, notMci>>

\* captureAndSubmit after await addDoc: toast.success; finally setIsUploading(false)
captureAddDocOk ==
    /\ captureAdd # NULL
    /\ \E id \in DocIds \ DOMAIN store, ts \in 0..MaxTs :
         store' = addDoc(store, id, NewRecord(captureAdd, NULL, [seconds |-> ts], NoRec))
    /\ captureAdd' = NULL
    /\ pmToast' = "Patient Logged"
    /\ isUploading' = IF pmMounted THEN FALSE ELSE isUploading
    /\ UNCHANGED <<pmMounted, isMciMode, selectedColor, streamRef, runningStreams,
                   cameraRequests, notMci>>

\* addDoc rejects: toast.error, stopCamera(); finally setIsUploading(false)
captureAddDocFail ==
    /\ captureAdd # NULL
    /\ captureAdd' = NULL
    /\ pmToast' = "Failed to log patient"
    /\ isUploading' = IF pmMounted THEN FALSE ELSE isUploading
    /\ PmCommit(NULL, isMciMode, 0, stopCameraTracks(runningStreams, streamRef))
    /\ UNCHANGED <<pmMounted, store, notMci>>

\* the page is left: the cleanup of the camera effect runs
pmUnmount ==
    /\ pmMounted
    /\ pmMounted' = FALSE
    /\ streamRef' = 0
    /\ runningStreams' = IF streamRef # 0 THEN stopTracks(runningStreams, streamRef)
                         ELSE runningStreams
    /\ UNCHANGED <<isMciMode, selectedColor, isUploading, cameraRequests, captureAdd,
                   pmToast, store, notMci>>

(***************************************************************************)
(* ParamedicPage: the standard report form                                 *)
(***************************************************************************)
\* useState({name: '', hr: '', bp: '', spo2: '', notes: ''}); the free texts
\* name and notes take no part in any decision and are left out
EmptyVitals == [hr |-> <<>>, spo2 |-> <<>>, bp |-> <<>>]

\* texts typed into the fields
HrTexts ==
    { <<>>, <<"0">>, <<"7", "2">>, <<"3", "0", "0">>, <<"3", "0", "1">>,
      <<"7", "x">>, <<" ", "7", "2">>, <<"-", "5">>, <<"a">> }

Spo2Texts ==
    { <<>>, <<"0">>, <<"9", "8">>, <<"1", "0", "1">>, <<"9", ".", "5">>, <<"-", "1">> }

BpTexts == { <<>>, <<" ">>, <<"1", "2", "0", "/", "8", "0">>, <<"1", "2", "0">> }

Digits == <<"0", "1", "2", "3", "4", "5", "6", "7", "8", "9">>

IsDigit(c) == \E v \in 1..Len(Digits) : Digits[v] = c

DigitValue(c) == (CHOOSE v \in 1..Len(Digits) : Digits[v] = c) - 1

\* the longest prefix of s made of decimal digits
RECURSIVE digitsPrefix(_)
digitsPrefix(s) ==
    IF s # <<>> /\ IsDigit(Head(s)) THEN <<Head(s)>> \o digitsPrefix(Tail(s)) ELSE <<>>

RECURSIVE digitsValue(_)
digitsValue(ds) ==
    IF ds = <<>> THEN 0
    ELSE 10 * digitsValue(SubSeq(ds, 1, Len(ds) - 1)) + DigitValue(ds[Len(ds)])

\* parseInt(s, 10): leading white space is skipped, a sign is read, then the
\* longest run of digits; NaN when there is none.  What follows is ignored.
parseInt(s) ==
    LET t == trimStart(s)
        signed == t # <<>> /\ Head(t) \in {"+", "-"}
        ds == digitsPrefix(IF signed THEN Tail(t) ELSE t)
    IN  IF ds = <<>> THEN [nan |-> TRUE, val |-> 0]
        ELSE [nan |-> FALSE,
              val |-> IF signed /\ Head(t) = "-" THEN 0 - digitsValue(ds)
                      ELSE digitsValue(ds)]

\* isNaN of a parseInt result
isNaN(n) == n.nan

\* A plausible slip: the result of the validation is not looked at
validateNormalFormSkipped(v) == "ok"

\* validateNormalForm: "ok" for true, the field whose toast it shows for
\* false, "ReferenceError" when the expression isNaN(bp) is reached: no bp
\* is declared in the function, the module or the page
validateNormalForm(v) ==
    LET hr == parseInt(v.hr)
        spo2 == parseInt(v.spo2)
    IN  IF v.hr = <<>> \/ isNaN(hr) \/ hr.val < 1 \/ hr.val > 300 THEN "hr"
        ELSE IF v.spo2 = <<>> \/ isNaN(spo2) \/ spo2.val < 0 \/ spo2.val > 100 THEN "spo2"
        ELSE IF v.bp = <<>> THEN "bp"
        ELSE "ReferenceError"

\* onChange of the three inputs: setVitals({...vitals, field: value})
setVitals(field, text) ==
    /\ pmMounted /\ ~isMciMode
    /\ vitals' = [vitals EXCEPT ![field] = text]
    /\ UNCHANGED <<standardAdd, uncaught, paramedicVars, store, notParamedic>>

\* submitStandardReport up to its await addDoc; the submit button is
\* disabled while uploading.  An exception thrown by validateNormalForm
\* leaves the handler before any state update.
submitStandardReport ==
    /\ pmMounted /\ ~isMciMode /\ ~isUploading
    /\ LET valid == validateNormalForm(vitals)
       IN  CASE valid = "hr" ->
                  /\ pmToast' = "Heart Rate is required and must be between 1 and 300"
                  /\ UNCHANGED <<isUploading, standardAdd, uncaught>>
             [] valid = "spo2" ->
                  /\ pmToast' = "SpO2 is required and must be between 0 and 100"
                  /\ UNCHANGED <<isUploading, standardAdd, uncaught>>
             [] valid = "bp" ->
                  /\ pmToast' = "Blood Pressure is required"
                  /\ UNCHANGED <<isUploading, standardAdd, uncaught>>
             [] valid = "ReferenceError" ->
                  /\ uncaught' = "ReferenceError"
                  /\ UNCHANGED <<pmToast, isUploading, standardAdd>>
             [] valid = "ok" ->
                  /\ isUploading' = TRUE
                  /\ pmToast' = "Submitting report..."
                  /\ standardAdd' = vitals
                  /\ UNCHANGED uncaught
    /\ UNCHANGED <<vitals, pmMounted, isMciMode, selectedColor, streamRef,
                   runningStreams, cameraRequests, captureAdd, store, notParamedic>>

ParamedicInit ==
    /\ pmMounted = TRUE
    /\ isMciMode = FALSE
    /\ selectedColor = NULL
    /\ isUploading = FALSE
    /\ streamRef = 0
    /\ runningStreams = {}
    /\ cameraRequests = 0
    /\ captureAdd = NULL
    /\ pmToast = NULL
    /\ vitals = EmptyVitals
    /\ standardAdd = NoRec
    /\ uncaught = NULL

\* no ParamedicPage is open
ParamedicClosed ==
    /\ pmMounted = FALSE
    /\ isMciMode = FALSE
    /\ selectedColor = NULL
    /\ isUploading = FALSE
    /\ streamRef = 0
    /\ runningStreams = {}
    /\ cameraRequests = 0
    /\ captureAdd = NULL
    /\ pmToast = NULL
    /\ vitals = EmptyVitals
    /\ standardAdd = NoRec
    /\ uncaught = NULL

(***************************************************************************)
(* The camera compressor (src/unnamed/part_000).                           *)
(*                                                                         *)
(* quality is a JavaScript Number.  Every double that the loop can reach   *)
(* lies in [2^-5, 1) and is a multiple of 2^-57, so a double is kept as    *)
(* the integer value * 2^57, split in two limbs: hi * 2^28 + lo.           *)
(* Subtraction is the exact difference rounded to 53 significant bits,     *)
(* ties to even, as IEEE 754 binary64 does it.                             *)
(***************************************************************************)
Limb == 2^28

\* the doubles nearest to the literals of the source
Double_0_9 == [hi |-> 483183820, lo |-> 214748368]    \* 0.9  = 129703669268270288 / 2^57
Double_0_05 == [hi |-> 26843545, lo |-> 161061274]    \* 0.05 =   7205759403792794 / 2^57
Double_0_1 == [hi |-> 53687091, lo |-> 53687092]      \* 0.1  =  14411518807585588 / 2^57

\* a <= b on doubles
doubleLeq(a, b) == a.hi < b.hi \/ (a.hi = b.hi /\ a.lo <= b.lo)

\* the spacing of the doubles around x, in units of 2^-57
ulp(x) ==
    IF x.hi >= 2^28 THEN 16
    ELSE IF x.hi >= 2^27 THEN 8
    ELSE IF x.hi >= 2^26 THEN 4
    ELSE IF x.hi >= 2^25 THEN 2
    ELSE 1

\* round to nearest, ties to even
roundToDouble(x) ==
    LET u == ulp(x)
        r == x.lo % u
        q == x.lo \div u
        up == (2 * r > u) \/ (2 * r = u /\ q % 2 = 1)
        lo == (x.lo - r) + (IF up THEN u ELSE 0)
    IN  IF lo = Limb THEN [hi |-> x.hi + 1, lo |-> 0] ELSE [hi |-> x.hi, lo |-> lo]

\* a - b on doubles, for a >= b
doubleMinus(a, b) ==
    LET borrow == IF a.lo < b.lo THEN 1 ELSE 0
    IN  roundToDouble([hi |-> a.hi - b.hi - borrow, lo |-> a.lo - b.lo + borrow * Limb])

MAX_SIZE == 100 * 1024

\* the lengths canvas.toDataURL may return for the frame on the canvas; the
\* image is known to the model only through them
DataUrlLengths == {2731, 136533, 136534, 273067}

\* Math.round((dataURL.length * 3) / 4)
sizeOf(len) == (len * 3 + 2) \div 4

CompressIdle ==
    /\ quality = NoRec
    /\ encodes = <<>>
    /\ callbacks = <<>>
    /\ compressing = FALSE
    /\ captures = 0
    /\ sizeInfo = NoRec

\* captureBtn.onclick up to the first call of compress(): the frame is drawn
\* and compressToUnder100KB starts with quality 0.9
capture ==
    /\ ~compressing
    /\ captures < MaxCaptures
    /\ captures' = captures + 1
    /\ quality' = Double_0_9
    /\ encodes' = <<>>
    /\ callbacks' = <<>>
    /\ compressing' = TRUE
    /\ UNCHANGED <<sizeInfo, hospitalVars, renderVars, loginVars, notOther>>

\* A plausible slip: the floor test is written the other way round
compressFloorInverted(len) ==
    LET size == sizeOf(len) IN
    /\ compressing
    /\ encodes' = Append(encodes, quality)
    /\ IF size <= MAX_SIZE \/ doubleLeq(Double_0_1, quality)
       THEN /\ callbacks' = Append(callbacks, [size |-> size, quality |-> quality])
            /\ sizeInfo' = [size |-> size]
            /\ compressing' = FALSE
            /\ UNCHANGED quality
       ELSE /\ quality' = doubleMinus(quality, Double_0_05)
            /\ UNCHANGED <<callbacks, sizeInfo, compressing>>
    /\ UNCHANGED <<captures, hospitalVars, renderVars, loginVars, notOther>>

\* one invocation of compress(); len is the length of the data URL that
\* toDataURL returns at the current quality
compress(len) ==
    LET size == sizeOf(len) IN
    /\ compressing
    /\ encodes' = Append(encodes, quality)
    /\ IF size <= MAX_SIZE \/ doubleLeq(quality, Double_0_1)
       THEN /\ callbacks' = Append(callbacks, [size |-> size, quality |-> quality])
            /\ sizeInfo' = [size |-> size]
            /\ compressing' = FALSE
            /\ UNCHANGED quality
       ELSE /\ quality' = doubleMinus(quality, Double_0_05)
            /\ UNCHANGED <<callbacks, sizeInfo, compressing>>
    /\ UNCHANGED <<captures, hospitalVars, renderVars, loginVars, notOther>>

(***************************************************************************)
(* Hospital selection (src/src/pages/DriverPage.tsx 34-64).                *)
(*                                                                         *)
(* Coordinates are integers in units of 0.0001 degree, as DEMO_PICKUP.     *)
(* haversineKm is evaluated in fixed point for points of the service area: *)
(* with x = 0.0001 degree * PI / 360 the source's h is                     *)
(*   sin(dLat * x)^2 + cos(a.lat) * cos(b.lat) * sin(dLng * x)^2           *)
(*     = x^2 * (dLat^2 + 0.899 * dLng^2)                                   *)
(* to the resolution kept here (sin t = t for |t| < 0.0005 rad and         *)
(* cos(18.49..18.51 degrees)^2 = 0.899), and R * 2 * atan2(sqrt(h),        *)
(* sqrt(1 - h)) = 2 * R * sqrt(h).  The result is in units of              *)
(* 2 * R * x = 11.12 m, rounded down; distances that differ by less        *)
(* compare equal.                                                          *)
(***************************************************************************)
HOSPITALS ==
    << [name |-> "Deenanath Mangeshkar Hospital", lat |-> 185028, lng |-> 738365],
       [name |-> "Sahyadri Hospital Kothrud", lat |-> 185050, lng |-> 738024],
       [name |-> "Shashwat Hospital", lat |-> 184965, lng |-> 738202] >>

\* Math.sqrt, rounded down; 0 <= n <= bound * bound
sqrt(n, bound) == CHOOSE r \in 0..bound : r * r <= n /\ (r + 1) * (r + 1) > n

abs(x) == IF x < 0 THEN -x ELSE x

haversineKm(a, b) ==
    LET dLat == b.lat - a.lat
        dLng == b.lng - a.lng
        h == dLat * dLat + (899 * dLng * dLng) \div 1000
    IN  sqrt(h, abs(dLat) + abs(dLng))

\* A plausible slip: <= instead of <
closestHospitalLastOnTie(to) ==
    LET pick(best, h) ==
            IF haversineKm([lat |-> h.lat, lng |-> h.lng], to)
                 <= haversineKm([lat |-> best.lat, lng |-> best.lng], to)
            THEN h ELSE best
        RECURSIVE reduce(_, _)
        reduce(i, acc) ==
            IF i > Len(HOSPITALS) THEN acc ELSE reduce(i + 1, pick(acc, HOSPITALS[i]))
    IN  reduce(2, HOSPITALS[1])

\* HOSPITALS.reduce(...) without an initial value: the accumulator starts as
\* the first element and the callback runs from the second on
closestHospital(to) ==
    LET pick(best, h) ==
            IF haversineKm([lat |-> h.lat, lng |-> h.lng], to)
                 < haversineKm([lat |-> best.lat, lng |-> best.lng], to)
            THEN h ELSE best
        RECURSIVE reduce(_, _)
        reduce(i, acc) ==
            IF i > Len(HOSPITALS) THEN acc ELSE reduce(i + 1, pick(acc, HOSPITALS[i]))
    IN  reduce(2, HOSPITALS[1])

\* pickup points of the service area: the hospitals' own coordinates,
\* DEMO_PICKUP, and points between and around them
PickupLats == {184905, 184965, 185000, 185028, 185050, 185074, 185100, 185130}
PickupLngs == {738024, 738059, 738077, 738150, 738202, 738280, 738323, 738365}

\* const nearestHospital = closestHospital(patientPos)
selectHospital ==
    /\ nearestHospital = NoRec
    /\ nearestHospital' = closestHospital(patientPos)
    /\ UNCHANGED <<patientPos, compressVars, renderVars, loginVars, notOther>>

HospitalIdle ==
    /\ patientPos = DEMO_PICKUP
    /\ nearestHospital = NoRec

(***************************************************************************)
(* DispatchLogin (src/src/pages/DriverPage.tsx 602-641), mounted on the    *)
(* route /dispatch.  The PIN effect (deps [pin, navigate]) runs in the     *)
(* step that changed pin.                                                  *)
(***************************************************************************)
PinDigits == {"1", "2", "3"}

LoginIdle ==
    /\ pin = <<>>
    /\ isShaking = FALSE
    /\ pathname = "/dispatch"
    /\ loginTimers = 0
    /\ loginToast = NULL

\* the render after pin became newPin (shaking, timers: the values the
\* handler leaves), followed by the PIN effect if pin changed
pinCommitted(newPin, shaking, timers) ==
    /\ pin' = newPin
    /\ IF newPin # pin /\ Len(newPin) = 4
       THEN IF newPin = <<"1", "1", "1", "1">>
            THEN /\ pathname' = "/paramedic"
                 /\ isShaking' = shaking
                 /\ loginTimers' = timers
                 /\ UNCHANGED loginToast
            ELSE IF newPin = <<"2", "2", "2", "2">>
            THEN /\ pathname' = "/driver"
                 /\ isShaking' = shaking
                 /\ loginTimers' = timers
                 /\ UNCHANGED loginToast
            ELSE /\ isShaking' = TRUE
                 /\ loginToast' = "Invalid Dispatch PIN"
                 /\ loginTimers' = timers + 1
                 /\ UNCHANGED pathname
       ELSE /\ isShaking' = shaking
            /\ loginTimers' = timers
            /\ UNCHANGED <<pathname, loginToast>>

\* A plausible slip: no length check before appending
handleKeyPressUnbounded(num) ==
    /\ pathname = "/dispatch"
    /\ pinCommitted(Append(pin, num), isShaking, loginTimers)
    /\ loginTimers' <= MaxTimers
    /\ UNCHANGED <<compressVars, hospitalVars, renderVars, notOther>>

\* handleKeyPress: if (pin.length < 4) setPin(prev => prev + num)
handleKeyPress(num) ==
    /\ pathname = "/dispatch"
    /\ IF Len(pin) < 4
       THEN pinCommitted(Append(pin, num), isShaking, loginTimers)
       ELSE UNCHANGED loginVars
    /\ loginTimers' <= MaxTimers
    /\ UNCHANGED <<compressVars, hospitalVars, renderVars, notOther>>

\* handleDelete: setPin(prev => prev.slice(0, -1))
handleDelete ==
    /\ pathname = "/dispatch"
    /\ pinCommitted(SubSeq(pin, 1, Len(pin) - 1), isShaking, loginTimers)
    /\ UNCHANGED <<compressVars, hospitalVars, renderVars, notOther>>

\* the setTimeout callback, 500 ms after an invalid PIN: setIsShaking(false);
\* setPin('').  No cleanup clears the timer; on an unmounted component the
\* updates are dropped.
loginTimeout ==
    /\ loginTimers > 0
    /\ IF pathname = "/dispatch"
       THEN pinCommitted(<<>>, FALSE, loginTimers - 1)
       ELSE /\ loginTimers' = loginTimers - 1
            /\ UNCHANGED <<pin, isShaking, pathname, loginToast>>
    /\ UNCHANGED <<compressVars, hospitalVars, renderVars, notOther>>

RenderIdle == etaUpdatesPending = [d \in Drivers |-> FALSE]

\* nothing outside the page under study is in use
OtherInit == CompressIdle /\ HospitalIdle /\ RenderIdle /\ LoginIdle

(***************************************************************************)
(* Specifications                                                          *)
(***************************************************************************)
vars == <<callerVars, storeVars, driverVars, paramedicVars, formVars, otherVars>>

\* DriverPage instances d1..: opened(S) is the state in which exactly the
\* instances of S have been opened on collection st, each with its
\* listener's first snapshot on its way
opened(S, st) ==
    /\ store = st
    /\ mounted = [d \in Drivers |-> d \in S]
    /\ patients = [d \in Drivers |-> <<>>]
    /\ snapQ = [d \in Drivers |-> IF d \in S THEN <<waitingSnapshot(st)>> ELSE <<>>]
    /\ selectedPatient = [d \in Drivers |-> NoRec]
    /\ isNavigating = [d \in Drivers |-> FALSE]
    /\ navigationPhase = [d \in Drivers |-> 1]
    /\ driverLocation = [d \in Drivers |-> NoRec]
    /\ routeGeoJson = [d \in Drivers |-> NoRec]
    /\ dispatchETA = [d \in Drivers |-> NoRec]
    /\ isCalculatingETA = [d \in Drivers |-> FALSE]
    /\ trackingRef = [d \in Drivers |-> 0]
    /\ activeIntervals = [d \in Drivers |-> {}]
    /\ tasks = [d \in Drivers |-> {}]
    /\ writeQ = [d \in Drivers |-> <<>>]
    /\ toast = [d \in Drivers |-> NULL]

\* the caller's chat alone, on an empty collection
TriageInit == CallerInit /\ opened({}, EmptyStore) /\ ParamedicClosed /\ OtherInit

TriageNext ==
    \/ \E text \in AnswerTexts : handleSendMessage(text)
    \/ CallerTimeout
    \/ CallerAddDocOk
    \/ CallerAddDocFail

SpecTriage == TriageInit /\ [][TriageNext]_vars

\* One driver at work: two reports are waiting, one from a caller (RED, with
\* the default pickup) and one from MCI intake (GREEN, no coordinates).
DriverStore ==
    [id \in {1, 2} |->
        IF id = 1 THEN NewRecord("RED", NULL, [seconds |-> 1], DEMO_PICKUP)
        ELSE NewRecord("GREEN", NULL, [seconds |-> 0], NoRec)]

DriverInit == CallerInit /\ opened({"d1"}, DriverStore) /\ ParamedicClosed /\ OtherInit

DriverNext ==
    \E d \in Drivers :
          \/ onSnapshot(d)
          \/ \E i \in 1..Cardinality(DocIds) : selectPatient(d, i)
          \/ declinePreview(d)
          \/ handleAcceptDispatch(d)
          \/ handlePatientLoaded(d)
          \/ handlePatientDelivered(d)
          \/ unmount(d)
          \/ handleAcceptDispatchOk(d)
          \/ handleAcceptDispatchFail(d)
          \/ handlePatientLoadedOk(d)
          \/ handlePatientLoadedFail(d)
          \/ handlePatientDeliveredOk(d)
          \/ handlePatientDeliveredFail(d)
          \/ trackingWriteOk(d)
          \/ trackingWriteFail(d)
          \/ trackingTick(d)
          \/ trackingPositionOk(d)
          \/ trackingPositionFail(d)
          \/ calculateETAPositionOk(d)
          \/ calculateETAPositionFail(d)
          \/ calculateETARouteDone(d)
          \/ routePositionOk(d)
          \/ routePositionFail(d)
          \/ routeFetchDone(d)

SpecDriver == DriverInit /\ [][DriverNext]_vars

\* Two drivers on one waiting report, while geolocation, routing and storage
\* answer every call and before a tracking tick fires.
FleetStore == [id \in {1} |-> NewRecord("RED", NULL, [seconds |-> 1], DEMO_PICKUP)]

FleetInit == CallerInit /\ opened(Drivers, FleetStore) /\ ParamedicClosed /\ OtherInit

FleetNext ==
    \E d \in Drivers :
          \/ onSnapshot(d)
          \/ \E i \in 1..Cardinality(DocIds) : selectPatient(d, i)
          \/ handleAcceptDispatch(d)
          \/ handlePatientLoaded(d)
          \/ handlePatientDelivered(d)
          \/ handleAcceptDispatchOk(d)
          \/ handlePatientLoadedOk(d)
          \/ handlePatientDeliveredOk(d)
          \/ calculateETAPositionOk(d)
          \/ calculateETARouteDone(d)
          \/ routePositionOk(d)
          \/ routeFetchDone(d)

SpecFleet == FleetInit /\ [][FleetNext]_vars


\* The paramedic's page alone, on an empty collection
PmInit == CallerInit /\ opened({}, EmptyStore) /\ ParamedicInit /\ OtherInit

PmNext ==
    \/ \E color \in MciColors : handleMciClick(color)
    \/ startCameraOk
    \/ startCameraFail
    \/ stopCamera
    \/ toggleMode
    \/ captureAndSubmit
    \/ captureAddDocOk
    \/ captureAddDocFail
    \/ pmUnmount

SpecParamedic == PmInit /\ [][PmNext]_vars

\* One driver watching the queue while records are created and accepted
QueueInit == CallerInit /\ opened({"d1"}, EmptyStore) /\ ParamedicClosed /\ OtherInit

QueueNext ==
    \/ \E id \in DocIds, labels \in QueueLabels, ts \in QueueTimestamps :
          recordCreated(id, labels, ts)
    \/ \E id \in DocIds : recordAccepted(id)
    \/ onSnapshot("d1")

SpecQueue == QueueInit /\ [][QueueNext]_vars

\* The paramedic's standard report form
ReportInit == CallerInit /\ opened({}, EmptyStore) /\ ParamedicInit /\ OtherInit

ReportNext ==
    \/ \E text \in HrTexts : setVitals("hr", text)
    \/ \E text \in Spo2Texts : setVitals("spo2", text)
    \/ \E text \in BpTexts : setVitals("bp", text)
    \/ submitStandardReport
    \/ toggleMode
    \/ pmUnmount

SpecReport == ReportInit /\ [][ReportNext]_vars

\* the camera compressor alone
CompressInit == CallerInit /\ opened({}, EmptyStore) /\ ParamedicClosed /\ OtherInit

CompressNext ==
    \/ capture
    \/ \E len \in DataUrlLengths : compress(len)

SpecCompress == CompressInit /\ [][CompressNext]_vars

\* hospital selection alone, for every pickup point
HospitalInit ==
    /\ CallerInit /\ opened({}, EmptyStore) /\ ParamedicClosed /\ CompressIdle
    /\ RenderIdle /\ LoginIdle
    /\ patientPos \in [lat : PickupLats, lng : PickupLngs]
    /\ nearestHospital = NoRec

HospitalNext == selectHospital

SpecHospital == HospitalInit /\ [][HospitalNext]_vars

\* The dispatch preview of one driver, render by render.  Between the render
\* that shows the preview and the render of the ETA effect's updates only
\* the driver's own clicks are taken; timers, geolocation, routing and
\* storage answer later.
PreviewInit == DriverInit

PreviewNext ==
    \E d \in Drivers :
          \/ ~etaUpdatesPending[d] /\ onSnapshot(d)
          \/ \E i \in 1..Cardinality(DocIds) : selectPatientRendered(d, i)
          \/ etaUpdatesRendered(d)
          \/ declinePreview(d)
          \/ handleAcceptDispatch(d)
          \/ ~etaUpdatesPending[d] /\ handleAcceptDispatchOk(d)
          \/ ~etaUpdatesPending[d] /\ handleAcceptDispatchFail(d)
          \/ ~etaUpdatesPending[d] /\ calculateETAPositionOk(d)
          \/ ~etaUpdatesPending[d] /\ calculateETAPositionFail(d)
          \/ ~etaUpdatesPending[d] /\ calculateETARouteDone(d)
          \/ ~etaUpdatesPending[d] /\ routePositionOk(d)
          \/ ~etaUpdatesPending[d] /\ routeFetchDone(d)

SpecPreview == PreviewInit /\ [][PreviewNext]_vars

\* The preview under the scheduling the platform gives: a queued render is
\* carried out, and every geolocation and routing request of calculateETA
\* is answered (with a result or an error).
PreviewAnswered ==
    \A d \in Drivers :
        /\ WF_vars(etaUpdatesRendered(d))
        /\ WF_vars(~etaUpdatesPending[d]
                     /\ (calculateETAPositionOk(d) \/ calculateETAPositionFail(d)))
        /\ WF_vars(~etaUpdatesPending[d] /\ calculateETARouteDone(d))

SpecPreviewLive == PreviewInit /\ [][PreviewNext]_vars /\ PreviewAnswered

\* the login page alone
LoginInit == CallerInit /\ opened({}, EmptyStore) /\ ParamedicClosed /\ OtherInit

LoginNext ==
    \/ \E num \in PinDigits : handleKeyPress(num)
    \/ handleDelete
    \/ loginTimeout

SpecLogin == LoginInit /\ [][LoginNext]_vars






(***************************************************************************)
(* C1: the triage decision table                                           *)
(***************************************************************************)
\* The sent texts that contain "yes" in any letter case, listed by hand.
YesTexts == { <<"Y", "e", "s">>, <<"e", "y", "E", "S">> }

\* the answers sent so far, as yes/no
UserAnswers ==
    LET users == SelectSeq(messages, LAMBDA m : m.role = "user")
    IN  [i \in 1..Len(users) |-> users[i].text \in YesTexts]

\* the decision table of the claim over answers 0..4 (ys[1..5]); NoRec while
\* no rule of the table applies to the answers given so far
TableResult(ys) ==
    LET n == Len(ys) IN
    IF n >= 1 /\ ~ys[1] THEN [triage_category |-> "RED", priority_rank |-> 1]
    ELSE IF n >= 2 /\ ~ys[2] THEN [triage_category |-> "RED", priority_rank |-> 1]
    ELSE IF n >= 3 /\ ys[3] THEN [triage_category |-> "RED", priority_rank |-> 1]
    ELSE IF n >= 4 /\ ys[4] THEN [triage_category |-> "YELLOW", priority_rank |-> 2]
    ELSE IF n >= 5 /\ ~ys[5] THEN [triage_category |-> "YELLOW", priority_rank |-> 2]
    ELSE IF n >= 5 THEN [triage_category |-> "GREEN", priority_rank |-> 3]
    ELSE NoRec

\* C1: whenever no answer is being evaluated, the triage result is exactly the
\* one the decision table gives for the answers sent so far (RED/1, YELLOW/2,
\* GREEN/3, or none yet), a result ends the session at the step of its answer,
\* five answers always end it, and currentStep stays within 0..4.
C1_TriageTable ==
    /\ currentStep \in 0..4
    /\ Len(UserAnswers) <= 5
    /\ ~isTyping =>
         /\ triageResult = TableResult(UserAnswers)
         /\ triageResult # NoRec => currentStep = Len(UserAnswers) - 1
         /\ Len(UserAnswers) = 5 => triageResult # NoRec

\* C1 witness: yes,yes,no,no,yes has ended in GREEN / rank 3 at step 4
C1_Witness ==
    /\ UserAnswers = <<TRUE, TRUE, FALSE, FALSE, TRUE>>
    /\ ~isTyping
    /\ triageResult = [triage_category |-> "GREEN", priority_rank |-> 3]
    /\ currentStep = 4

(***************************************************************************)
(* C2: record status only moves forward                                    *)
(***************************************************************************)
statusRank(st) ==
    CASE st = "waiting" -> 0
      [] st = "driver_en_route" -> 1
      [] st = "en_route_to_hospital" -> 2
      [] st = "delivered" -> 3

\* C2: no step sets a record to a status earlier than the one it has
\* (waiting -> driver_en_route -> en_route_to_hospital -> delivered).
C2_StatusNeverRegresses ==
    [][\A id \in DOMAIN store :
          statusRank(store'[id].status) >= statusRank(store[id].status)]_vars

(***************************************************************************)
(* C3: late route / ETA results are discarded                              *)
(***************************************************************************)
\* C3: a step that consumes the result of a route or ETA request whose
\* context has changed since it was issued (or that a newer request has
\* replaced) writes none of dispatchETA, routeGeoJson, isCalculatingETA.
C3_StaleResultsDiscarded ==
    [][\A d \in Drivers : \A t \in tasks[d] :
          (t.superseded /\ t.kind \in {"eta", "route1", "route2"} /\ t \notin tasks'[d])
          => /\ dispatchETA'[d] = dispatchETA[d]
             /\ routeGeoJson'[d] = routeGeoJson[d]
             /\ isCalculatingETA'[d] = isCalculatingETA[d]]_vars

\* C3 witness: the estimate of the selected patient is shown while an ETA
\* request issued for another patient is still awaiting its route
C3_Witness ==
    \E d \in Drivers : \E t \in tasks[d] :
        /\ t.kind = "eta" /\ t.superseded /\ t.stage = "route"
        /\ selectedPatient[d] # NoRec /\ ~isNavigating[d]
        /\ selectedPatient[d].docId # t.doc
        /\ dispatchETA[d] = [forDoc |-> selectedPatient[d].docId]
        /\ ~isCalculatingETA[d]

(***************************************************************************)
(* C4: position writes only in phase 1                                     *)
(***************************************************************************)
\* C4: a position write (driverLat/driverLng) for a record is issued by an
\* instance only while it is navigating in phase 1 for that record and the
\* record is not delivered.
C4_PositionWritesOnlyInPhase1 ==
    [][\A d \in Drivers :
          (Len(writeQ'[d]) > Len(writeQ[d]) /\ writeQ'[d][Len(writeQ'[d])].kind = "track")
          => LET w == writeQ'[d][Len(writeQ'[d])] IN
             /\ isNavigating[d] /\ navigationPhase[d] = 1
             /\ selectedPatient[d] # NoRec /\ selectedPatient[d].docId = w.doc
             /\ store[w.doc].status # "delivered"]_vars

(***************************************************************************)
(* C5: a failed status write does not advance the local state              *)
(***************************************************************************)
FailToasts == {"Failed to accept dispatch", "Failed to update status", "Failed to finalise"}

C6_AcceptNotBlockedByFailedETA ==
    \A d \in Drivers :
        (/\ mounted[d] /\ selectedPatient[d] # NoRec /\ ~isNavigating[d]
         /\ ~\E t \in tasks[d] : t.kind = "eta" /\ ~t.cancelled
         /\ dispatchETA[d] = NoRec)
        => acceptEnabled(d)

(***************************************************************************)
(* C7: no camera stream outlives the capture flow                          *)
(***************************************************************************)
\* C7: whenever the capture flow is not active (no colour selected, MCI mode
\* off, or the page left) no camera stream acquired by the flow is running.
C7_NoStreamOutsideFlow ==
    (selectedColor = NULL \/ ~isMciMode \/ ~pmMounted) => runningStreams = {}

(***************************************************************************)
(* C8: the tracking interval lives exactly in phase 1                      *)
(***************************************************************************)
\* C8: an instance has at most one running interval, and a running interval
\* belongs to a mounted instance that is navigating in phase 1 for the
\* selected patient and is the one trackingRef holds.
C8_IntervalOnlyInPhase1 ==
    \A d \in Drivers :
        /\ Cardinality(activeIntervals[d]) <= 1
        /\ \A iv \in activeIntervals[d] :
              /\ mounted[d] /\ isNavigating[d] /\ navigationPhase[d] = 1
              /\ selectedPatient[d] # NoRec /\ selectedPatient[d].docId = iv.doc
              /\ trackingRef[d] = iv.id

\* C8 witness: phase 2 has been entered and the interval of phase 1 is gone
C8_Witness ==
    \E d \in Drivers :
        /\ isNavigating[d] /\ navigationPhase[d] = 2 /\ selectedPatient[d] # NoRec
        /\ activeIntervals[d] = {} /\ trackingRef[d] = 0


(***************************************************************************)
(* C9: the queue is the latest snapshot, ordered by tier and report time   *)
(***************************************************************************)
\* the queue q lists p before r only if p's tier is lower, or the tiers are
\* equal and p's timestamp seconds (0 when missing) are not later
OrderedByTierThenSeconds(q) ==
    \A i \in 1..Len(q) : \A j \in 1..Len(q) :
        i < j => \/ tier(q[i]) < tier(q[j])
                 \/ tier(q[i]) = tier(q[j]) /\ seconds(q[i]) <= seconds(q[j])

\* C9: every delivery applies the oldest undelivered snapshot: afterwards the
\* queue holds exactly that snapshot's records, ordered by tier and then by
\* timestamp seconds; no other step changes the queue.
C9_QueueIsLatestSnapshotSorted ==
    [][\A d \in Drivers :
          IF snapQ[d] # <<>> /\ snapQ'[d] = Tail(snapQ[d])
          THEN /\ Len(patients'[d]) = Len(Head(snapQ[d]))
               /\ Range(patients'[d]) = Range(Head(snapQ[d]))
               /\ OrderedByTierThenSeconds(patients'[d])
          ELSE patients'[d] = patients[d]]_vars

\* a delivered queue of two records of one tier that the sort had to swap,
\* with a newer snapshot already on its way
C9_Witness ==
    /\ Len(patients["d1"]) = 2
    /\ patients["d1"][1].docId > patients["d1"][2].docId
    /\ tier(patients["d1"][1]) = tier(patients["d1"][2])
    /\ seconds(patients["d1"][1]) < seconds(patients["d1"][2])
    /\ patients["d1"][2].timestamp # NoRec
    /\ snapQ["d1"] # <<>>

(***************************************************************************)
(* C10: the tier table                                                     *)
(***************************************************************************)
\* C10: every queued record has tier 1 for RED/Critical, 2 for YELLOW/Urgent,
\* 3 for GREEN/Routine, 4 for BLACK and 5 otherwise, so a BLACK record stands
\* after every GREEN/Routine record and before every unlabelled record.
C10_TierTable ==
    \A d \in Drivers : \A i \in 1..Len(patients[d]) :
        LET p == patients[d][i]
        IN  /\ tier(p) = getTier(p)
            /\ \A j \in 1..Len(patients[d]) :
                  LET r == patients[d][j]
                  IN  p.triage = "BLACK" =>
                         /\ (getTier(r) = 3 => j < i)
                         /\ (getTier(r) = 5 => i < j)

(***************************************************************************)
(* C11: the sort is stable                                                 *)
(***************************************************************************)
\* the position of the record of document id in the sequence q
IndexOf(q, id) == CHOOSE i \in 1..Len(q) : q[i].docId = id

\* C11: a delivery keeps two records of the snapshot that have equal tier and
\* equal timestamp seconds (a missing timestamp counting as 0) in the order
\* they have in the snapshot.
C11_SortIsStable ==
    [][\A d \in Drivers :
          (snapQ[d] # <<>> /\ snapQ'[d] = Tail(snapQ[d])) =>
             LET snap == Head(snapQ[d])
             IN  \A i \in 1..Len(snap) : \A j \in 1..Len(snap) :
                    (/\ i < j
                     /\ tier(snap[i]) = tier(snap[j])
                     /\ seconds(snap[i]) = seconds(snap[j]))
                    => IndexOf(patients'[d], snap[i].docId)
                          < IndexOf(patients'[d], snap[j].docId)]_vars

\* a delivered queue of two different records that tie on tier and seconds,
\* one of them without a timestamp
C11_Witness ==
    /\ Len(patients["d1"]) = 2
    /\ tier(patients["d1"][1]) = tier(patients["d1"][2])
    /\ patients["d1"][1].timestamp = NoRec
    /\ patients["d1"][2].timestamp = [seconds |-> 0]
    /\ patients["d1"][1].triage # patients["d1"][2].triage

(***************************************************************************)
(* C12: the sort is idempotent                                             *)
(***************************************************************************)
\* C12: sorting the displayed queue again, or sorting a sorted snapshot
\* again, gives the same sequence.
C12_SortIsIdempotent ==
    \A d \in Drivers :
        /\ sort(patients[d]) = patients[d]
        /\ \A k \in 1..Len(snapQ[d]) : sort(sort(snapQ[d][k])) = sort(snapQ[d][k])

\* a displayed queue of two different records that tie, while a snapshot of
\* one record is on its way
C12_Witness ==
    /\ Len(patients["d1"]) = 2
    /\ compare(patients["d1"][1], patients["d1"][2]) = 0
    /\ patients["d1"][1].docId < patients["d1"][2].docId
    /\ patients["d1"][1].acuity # patients["d1"][2].acuity
    /\ \E k \in 1..Len(snapQ["d1"]) : Len(snapQ["d1"][k]) = 1

(***************************************************************************)
(* C13: severity is written once                                           *)
(***************************************************************************)
\* C13: no step of a driver instance (status write or position write) changes
\* the triage or the acuity of an existing record, or removes the record.
C13_SeverityNeverRewritten ==
    [][\A id \in DOMAIN store :
          /\ id \in DOMAIN store'
          /\ store'[id].triage = store[id].triage
          /\ store'[id].acuity = store[id].acuity]_vars

\* a record that has received a position write and two status writes
C13_Witness ==
    /\ store[1].status = "en_route_to_hospital"
    /\ store[1].driverPos # NoRec
    /\ store[1].triage = "RED"

(***************************************************************************)
(* C14: the trip state machine of a driver instance                        *)
(***************************************************************************)
\* the oldest write of instance d, of the given kind, is acknowledged in
\* this step
Acknowledged(d, kind) ==
    /\ writeQ[d] # <<>>
    /\ Head(writeQ[d]).kind = kind
    /\ writeQ'[d] = Tail(writeQ[d])
    /\ store'[Head(writeQ[d]).doc].status = statusOf(kind)

\* C14: phase 2 is held only while navigating, and the pair (isNavigating,
\* navigationPhase) changes only from idle to phase 1 on an acknowledged
\* accept, from phase 1 to phase 2 on an acknowledged load, and from phase 2
\* to idle on an acknowledged delivery.
C14_TripStateMachine ==
    /\ [](\A d \in Drivers : navigationPhase[d] = 2 => isNavigating[d])
    /\ [][\A d \in Drivers :
            (isNavigating'[d] # isNavigating[d] \/ navigationPhase'[d] # navigationPhase[d])
            => \/ /\ ~isNavigating[d] /\ navigationPhase[d] = 1
                  /\ isNavigating'[d] /\ navigationPhase'[d] = 1
                  /\ Acknowledged(d, "accept")
               \/ /\ isNavigating[d] /\ navigationPhase[d] = 1
                  /\ isNavigating'[d] /\ navigationPhase'[d] = 2
                  /\ Acknowledged(d, "loaded")
               \/ /\ isNavigating[d] /\ navigationPhase[d] = 2
                  /\ ~isNavigating'[d] /\ navigationPhase'[d] = 1
                  /\ Acknowledged(d, "delivered")]_vars

\* a whole trip was made: the record is delivered and the instance is idle
\* again
C14_Witness ==
    /\ store[1].status = "delivered"
    /\ ~isNavigating["d1"] /\ navigationPhase["d1"] = 1
    /\ toast["d1"] = "Transport Complete. Ready for next dispatch."

(***************************************************************************)
(* C15: a report that fails validation is not written                      *)
(***************************************************************************)
\* a text that is a decimal integer between lo and hi
IsIntegerIn(s, lo, hi) ==
    /\ s # <<>>
    /\ \A i \in 1..Len(s) : IsDigit(s[i])
    /\ digitsValue(s) >= lo /\ digitsValue(s) <= hi

\* the form contents the validation has to reject
InvalidVitals(v) ==
    \/ ~IsIntegerIn(v.hr, 1, 300)
    \/ ~IsIntegerIn(v.spo2, 0, 100)
    \/ v.bp = <<>>

\* C15: a submission of a form whose heart rate is missing or not an integer
\* in 1..300, whose SpO2 is missing or not an integer in 0..100, or whose
\* blood pressure is empty issues no write and leaves the collection, the
\* form contents and isUploading unchanged.
C15_InvalidReportNotWritten ==
    [][(submitStandardReport /\ InvalidVitals(vitals))
          => UNCHANGED <<store, standardAdd, vitals, isUploading>>]_vars

\* a submission was refused for its SpO2 after the heart rate had passed
C15_Witness ==
    /\ pmToast = "SpO2 is required and must be between 0 and 100"
    /\ vitals.hr = <<"7", "2">>
    /\ vitals.spo2 = <<"1", "0", "1">>
    /\ vitals.bp # <<>>
    /\ standardAdd = NoRec /\ store = EmptyStore

(***************************************************************************)
(* C16: a finished triage session has added one record                     *)
(***************************************************************************)
\* C16: no record exists before the session has a result; once the session
\* has its result and its addDoc has settled, the collection holds exactly one
\* record, which carries the result's category, status 'waiting' and the
\* default pickup coordinates.
C16_TerminalSessionAddsOneRecord ==
    /\ triageResult = NoRec => store = EmptyStore
    /\ (triageResult # NoRec /\ callerAdd = NULL) =>
          /\ Cardinality(DOMAIN store) = 1
          /\ \A id \in DOMAIN store :
                /\ store[id].triage = triageResult.triage_category
                /\ store[id].status = "waiting"
                /\ store[id].patientPos = DEMO_PICKUP

(***************************************************************************)
(* C17: answers after the result, or during an evaluation, are ignored     *)
(***************************************************************************)
\* the user's messages of a message list
UserMessages(ms) == SelectSeq(ms, LAMBDA m : m.role = "user")

\* C17: with a triage result, no step changes triageResult, currentStep or
\* the messages, and never is there more than one record; while an answer is
\* being evaluated no user message is added, so the answers never outnumber
\* the questions asked.
C17_FurtherAnswersIgnored ==
    /\ [](Cardinality(DOMAIN store) <= 1)
    /\ [](Len(UserMessages(messages)) <= currentStep + 1)
    /\ [][triageResult # NoRec => UNCHANGED <<triageResult, currentStep, messages>>]_vars
    /\ [][isTyping => UserMessages(messages') = UserMessages(messages)]_vars

\* a session that ended at its first answer and whose record is stored:
\* every answer sent from here on is ignored
C17_Witness ==
    /\ triageResult # NoRec
    /\ currentStep = 0
    /\ Len(UserMessages(messages)) = 1
    /\ callerAdd = NULL
    /\ Cardinality(DOMAIN store) = 1

(***************************************************************************)
(* C18: acceptance is not arbitrated                                       *)
(***************************************************************************)
\* C18: no accept is turned down: every step in which the oldest write of an
\* instance, an accept, is answered leaves its record in status
\* driver_en_route, whatever the status was, and the instance navigating.
C18_AcceptNotArbitrated ==
    [][\A d \in Drivers :
          (/\ mounted[d] /\ writeQ[d] # <<>>
           /\ Head(writeQ[d]).kind = "accept"
           /\ writeQ'[d] = Tail(writeQ[d]))
          => /\ store'[Head(writeQ[d]).doc].status = "driver_en_route"
             /\ isNavigating'[d]
             /\ toast'[d] = "En route to patient!"]_vars

\* both instances navigate for the same record at the same time
C18_Witness ==
    /\ isNavigating["d1"] /\ isNavigating["d2"]
    /\ selectedPatient["d1"] # NoRec /\ selectedPatient["d2"] # NoRec
    /\ selectedPatient["d1"].docId = selectedPatient["d2"].docId
    /\ store[selectedPatient["d1"].docId].status = "driver_en_route"

C20_GeolocationFailureAborts ==
    [][\A d \in Drivers :
          (routePositionFail(d) /\ \E t \in tasks[d] \ tasks'[d] : ~t.cancelled) =>
             /\ toast'[d] = "Could not get your location."
             /\ ~isNavigating'[d]]_vars

(***************************************************************************)
(* C21: whenever compressToUnder100KB invokes its callback, the reported   *)
(* size is at most 100 KB (102400 bytes) or the quality has reached the    *)
(* floor (quality <= 0.1): no callback reports an oversize payload at a    *)
(* quality above the floor.                                                *)
(***************************************************************************)
C21_CallbackWithinSizeOrAtFloor ==
    \A i \in 1..Len(callbacks) :
        \/ callbacks[i].size <= 102400
        \/ doubleLeq(callbacks[i].quality, Double_0_1)

\* the callback has been invoked with an oversize payload, at the floor
C21_Witness ==
    \E i \in 1..Len(callbacks) :
        /\ callbacks[i].size > 102400
        /\ doubleLeq(callbacks[i].quality, Double_0_1)

\* strictly descending sequence of doubles
StrictlyDescending(qs) ==
    \A i \in 1..(Len(qs) - 1) : doubleLeq(qs[i + 1], qs[i]) /\ qs[i + 1] # qs[i]

(***************************************************************************)
(* C30: a call of compressToUnder100KB makes at most 17 encode attempts,   *)
(* at strictly descending qualities starting at 0.9, never encodes at a    *)
(* quality below the floor 0.1, and has invoked its callback exactly once  *)
(* when it is over (never more than once before).                          *)
(***************************************************************************)
C30_SeventeenEncodesNoneBelowFloor ==
    /\ Len(encodes) <= 17
    /\ (encodes # <<>> => encodes[1] = Double_0_9)
    /\ StrictlyDescending(encodes)
    /\ \A i \in 1..Len(encodes) : doubleLeq(Double_0_1, encodes[i])
    /\ Len(callbacks) <= 1
    /\ (captures > 0 /\ ~compressing => Len(callbacks) = 1)

\* the distance from hospital h to the pickup point
distanceTo(h) == haversineKm([lat |-> h.lat, lng |-> h.lng], patientPos)

(***************************************************************************)
(* C22: closestHospital is an arg-min over HOSPITALS by haversineKm: the   *)
(* selected hospital is an element of the list, no hospital of the list is *)
(* nearer to the pickup point, every hospital earlier in the list is       *)
(* strictly farther (the earliest wins a tie), and a pickup point at a     *)
(* hospital's coordinates selects that hospital, at distance zero.         *)
(***************************************************************************)
C22_ClosestHospitalIsArgMin ==
    nearestHospital # NoRec =>
        /\ \E k \in 1..Len(HOSPITALS) :
              /\ nearestHospital = HOSPITALS[k]
              /\ \A j \in 1..Len(HOSPITALS) :
                    /\ distanceTo(HOSPITALS[k]) <= distanceTo(HOSPITALS[j])
                    /\ j < k => distanceTo(HOSPITALS[k]) < distanceTo(HOSPITALS[j])
        /\ \A j \in 1..Len(HOSPITALS) :
              (patientPos.lat = HOSPITALS[j].lat /\ patientPos.lng = HOSPITALS[j].lng)
                  => nearestHospital = HOSPITALS[j] /\ distanceTo(nearestHospital) = 0

\* a hospital has been selected although a later one of the list is as near
C22_Witness ==
    /\ nearestHospital # NoRec
    /\ \E k, j \in 1..Len(HOSPITALS) :
          /\ nearestHospital = HOSPITALS[k]
          /\ k < j
          /\ distanceTo(HOSPITALS[j]) = distanceTo(HOSPITALS[k])

(***************************************************************************)
(* C23: a driver instance that is navigating (isNavigating true) has a     *)
(* selected patient; declining or closing the preview while the accept     *)
(* write is pending does not lead to isNavigating with selectedPatient     *)
(* null.                                                                   *)
(***************************************************************************)
C23_NavigatingHasPatient ==
    \A d \in Drivers : isNavigating[d] => selectedPatient[d] # NoRec

(***************************************************************************)
(* C24: whenever a patient is selected in the preview and the Accept       *)
(* Dispatch button is enabled (isCalculatingETA false, dispatchETA set),   *)
(* dispatchETA is the estimate computed for that patient: no state shows   *)
(* patient B selected with the estimate of a patient A previewed before.   *)
(***************************************************************************)
C24_EstimateIsForSelectedPatient ==
    \A d \in Drivers :
        (selectedPatient[d] # NoRec /\ ~isNavigating[d]
            /\ ~isCalculatingETA[d] /\ dispatchETA[d] # NoRec)
        => dispatchETA[d].forDoc = selectedPatient[d].docId

\* the form contents the claim calls valid
ValidVitals(v) ==
    /\ IsIntegerIn(v.hr, 1, 300)
    /\ IsIntegerIn(v.spo2, 0, 100)
    /\ trim(v.bp) # <<>>

(***************************************************************************)
(* C25: a submission of a valid standard form (heart rate an integer in    *)
(* 1..300, SpO2 an integer in 0..100, blood pressure non-empty) sets       *)
(* isUploading and issues the write of a record carrying the entered       *)
(* vitals; no exception leaves the handler.                                *)
(***************************************************************************)
C25_ValidReportIsWritten ==
    [][(submitStandardReport /\ ValidVitals(vitals))
          => (standardAdd' = vitals /\ isUploading' /\ uncaught' = NULL)]_vars

(***************************************************************************)
(* C26: every record an intake flow adds to the collection is created with *)
(* status 'waiting' and with a severity label for which the driver queue's *)
(* tier function returns a tier in 1..4, never the unrecognised tier 5.    *)
(***************************************************************************)
C26_CreatedWaitingWithKnownTier ==
    [][\A id \in DOMAIN store' \ DOMAIN store :
          /\ store'[id].status = "waiting"
          /\ tier(Patient(id, store'[id])) \in 1..4]_vars

\* instance d shows the preview of a patient
inPreview(d) == selectedPatient[d] # NoRec /\ ~isNavigating[d]

(***************************************************************************)
(* C27: while the preview of a patient is shown and isCalculatingETA is    *)
(* true (or the render that sets it is queued), then, geolocation and      *)
(* routing requests being answered, isCalculatingETA becomes false unless  *)
(* the preview is left first (closed, declined or accepted): 'Calculating  *)
(* route...' is never permanent, also when the effect re-runs because it   *)
(* set driverLocation itself.                                              *)
(***************************************************************************)
C27_CalculatingNeverPermanent ==
    \A d \in Drivers :
        (inPreview(d) /\ (isCalculatingETA[d] \/ etaUpdatesPending[d]))
            ~> (~inPreview(d) \/ (~isCalculatingETA[d] /\ ~etaUpdatesPending[d]))

\* the calculation has ended in the preview after the effect ran a second
\* time for the position it had set itself
C27_Witness ==
    \E d \in Drivers :
        /\ inPreview(d) /\ ~isCalculatingETA[d] /\ ~etaUpdatesPending[d]
        /\ driverLocation[d] # NoRec
        /\ \E t \in tasks[d] : t.kind = "eta" /\ t.cancelled

\* instance d shows the queue with no patient selected
idle(d) == selectedPatient[d] = NoRec /\ ~isNavigating[d]

(***************************************************************************)
(* C28: a successful delivery leaves the instance in the idle queue view   *)
(* with routeGeoJson and driverLocation null, and while the instance stays *)
(* in the idle queue view no step sets either of them: no callback still   *)
(* in flight repopulates them before the next patient is selected.         *)
(***************************************************************************)
C28_IdleAfterDeliveryStaysCleared ==
    [][\A d \in Drivers :
          /\ (handlePatientDeliveredOk(d) /\ idle(d)')
                => (routeGeoJson'[d] = NoRec /\ driverLocation'[d] = NoRec)
          /\ (idle(d) /\ idle(d)')
                => /\ (driverLocation[d] = NoRec => driverLocation'[d] = NoRec)
                   /\ (routeGeoJson[d] = NoRec => routeGeoJson'[d] = NoRec)]_vars

\* the two PINs that open a page
ParamedicPin == <<"1", "1", "1", "1">>
DriverPin == <<"2", "2", "2", "2">>

(***************************************************************************)
(* C29: in DispatchLogin the PIN never has more than 4 digits; the page    *)
(* navigates to /paramedic only on PIN 1111 and to /driver only on PIN     *)
(* 2222; entering any other 4-digit PIN navigates nowhere and arms the     *)
(* reset timer, whose callback empties the PIN and ends the shake, and     *)
(* from the empty PIN a digit can be entered again.                        *)
(***************************************************************************)
C29_PinLoginGate ==
    /\ [](Len(pin) <= 4)
    /\ [][/\ (pathname' # pathname)
               => \/ (pathname' = "/paramedic" /\ pin' = ParamedicPin)
                  \/ (pathname' = "/driver" /\ pin' = DriverPin)
          /\ (pin' # pin /\ Len(pin') = 4 /\ pin' \notin {ParamedicPin, DriverPin})
               => (pathname' = pathname /\ loginTimers' = loginTimers + 1)
          /\ (loginTimeout /\ pathname = "/dispatch")
               => (pin' = <<>> /\ ~isShaking' /\ pathname' = pathname)
          /\ \A num \in PinDigits :
               (handleKeyPress(num) /\ pin = <<>>) => pin' = <<num>>]_vars

\* an invalid PIN has been rejected and reset, and the next entry has begun
C29_Witness ==
    /\ loginToast = "Invalid Dispatch PIN"
    /\ loginTimers = 0 /\ ~isShaking
    /\ pin = <<"1">>
    /\ pathname = "/dispatch"

====
